---- MODULE Spec2Model ----
(***************************************************************************)
(* A model of include/Threadpool.hpp: LockFreeRingBuffer and               *)
(* LockFreeThreadPool.  Every step is one access to shared memory (one     *)
(* atomic load, store, read-modify-write or compare-exchange, one new or   *)
(* delete); threads interleave at those steps (sequentially consistent     *)
(* interleaving, which is one of the executions the weaker orderings of    *)
(* the code allow).  Reads of data only the reading thread writes (the     *)
(* owner's tail and slots during its own pop) are folded into the next     *)
(* shared access.                                                          *)
(*                                                                         *)
(* Threads: Main (the external submitter that later waits and destroys the *)
(* pool) and the pool's workers 1..NumWorkers.                            *)
(***************************************************************************)
EXTENDS Integers, FiniteSets, Sequences, TLC

\* ---------------------------------------------------------------- bounds
NumWorkers == 2        \* N, the constructor's num_threads
RingSize == 2          \* LockFreeRingBuffer<Task, Size>: 4096 in the source, scaled
MaxTasks == 4          \* task ids: envelopes any workload creates
MaxAddr == 4           \* heap addresses operator new hands out
MaxSpawn == 2          \* enqueue calls one task body makes
SpecTasks == 2         \* envelopes the workloads of Spec create
MaxMiss == 0           \* steal_attempts is counted up to here; it only selects
                       \* how long an idle worker pauses in backoff
WordMod == 16          \* size_t arithmetic is modulo 2^64; scaled

\* ------------------------------------------------------ program constants
\* The first three stages of backoff (yield, 10 us, 100 us) differ in duration
\* only: each returns to the worker's loop.
YieldBelow == 10       \* backoff: attempts < 10
ShortSleepBelow == 20  \* backoff: attempts < 20
LongSleepBelow == 100  \* backoff: attempts < 100

Main == 0
Workers == 1..NumWorkers
Threads == {Main} \cup Workers
Addr == 1..MaxAddr
Tasks == 1..MaxTasks
Idx == 0..(RingSize - 1)
nullptr == 0

\* The workload: which callables throw, and the value the others return.
Throws(t) == t % 2 = 0
RetVal(t) == 10 * t

VARIABLES
    head, tail, buffer,          \* per worker: local_queue.head, .tail, .buffer[i].data
    global_queue_head,           \* std::atomic<Task*>
    global_queue_size,           \* std::atomic<size_t>
    active_tasks,                \* std::atomic<size_t>
    stop,                        \* std::atomic<bool>
    steal_attempts, sleeping,    \* WorkerData
    live, func, next,            \* the heap: allocated?, Task::func (a task id), Task::next
    pc, loc,                     \* each thread's position and locals
    nextId,                      \* the next task id enqueue creates
    future,                      \* the shared state of each task's promise
    hist,                        \* history per task: dequeues, calls, returns, deletes,
                                 \* accepted, accepted before the destructor was entered,
                                 \* rejected by its submitter's ring
    crashed,                     \* whether, by which thread and why the process died
    ub,                          \* a freed envelope was used
    work                         \* the workload: what main and the task bodies submit

vars == <<head, tail, buffer, global_queue_head, global_queue_size, active_tasks,
          stop, steal_attempts, sleeping, live, func, next, pc, loc, nextId,
          future, hist, crashed, ub, work>>

rings == <<head, tail, buffer>>
heap == <<live, func, next>>
backoffs == <<steal_attempts, sleeping>>

NoLoc == [cur |-> 0, item |-> 0, nxt |-> 0, att |-> 0, vic |-> 0,
          task |-> 0, t |-> 0, spawned |-> 0, etask |-> 0, eid |-> 0, old |-> 0, k |-> 0, ret |-> "",
          dang |-> FALSE]

NoCrash == [by |-> -1, why |-> "none"]
Crash(th, why) == [by |-> th, why |-> why]

\* A workload: main makes `main` enqueue calls, then waits and/or destroys the
\* pool; the body of task t makes kids[t] enqueue calls and returns (or throws);
\* `total` is the number of envelopes it creates when every task runs once.
Sum(k, n) == LET S[i \in 0..MaxTasks] == IF i = 0 THEN 0 ELSE S[i - 1] + k[i] IN S[n]
WorkloadsOf(n) ==
    {wl \in [main : 1..n, kids : [Tasks -> 0..MaxSpawn], total : {n}] :
        /\ \A t \in Tasks : t > n => wl.kids[t] = 0
        /\ wl.main + Sum(wl.kids, n) = n
        /\ \A t \in 1..n : wl.main + Sum(wl.kids, t - 1) >= t}

\* The state when the constructor has returned.
Constructed(wl) ==
    /\ work = wl
    /\ head = [w \in Workers |-> 0]
    /\ tail = [w \in Workers |-> 0]
    /\ buffer = [w \in Workers |-> [i \in Idx |-> nullptr]]
    /\ global_queue_head = nullptr
    /\ global_queue_size = 0
    /\ active_tasks = 0
    /\ stop = FALSE
    /\ steal_attempts = [w \in Workers |-> 0]
    /\ sleeping = [w \in Workers |-> FALSE]
    /\ live = [a \in Addr |-> FALSE]
    /\ func = [a \in Addr |-> 0]
    /\ next = [a \in Addr |-> nullptr]
    /\ pc = [th \in Threads |-> IF th = Main THEN "m_idle" ELSE "loop"]
    /\ loc = [th \in Threads |-> NoLoc]
    /\ nextId = 1
    /\ future = [t \in Tasks |-> [st |-> "pending", v |-> 0]]
    /\ hist = [deq |-> [t \in Tasks |-> 0], runs |-> [t \in Tasks |-> 0],
               ends |-> [t \in Tasks |-> 0], freed |-> [t \in Tasks |-> 0],
               accepted |-> [t \in Tasks |-> FALSE],
               before |-> [t \in Tasks |-> FALSE],
               spilled |-> [t \in Tasks |-> FALSE]]
    /\ crashed = NoCrash
    /\ ub = FALSE

Init == \E n \in 1..SpecTasks : \E wl \in WorkloadsOf(n) : Constructed(wl)

At(th, p) == crashed = NoCrash /\ pc[th] = p
Goto(th, p) == pc' = [pc EXCEPT ![th] = p]
\* An increment that is lost (a load and a store instead of one fetch_add).
IncLost(x) == x
Inc(x) == (x + 1) % WordMod
Dec(x) == (x - 1) % WordMod
Cap2(n) == IF n >= 2 THEN 2 ELSE n + 1

\* The outcomes of a compare-exchange on an atomic that holds cur, with exp
\* expected: TRUE when it stores.  compare_exchange_weak may fail although the
\* values are equal; compare_exchange_strong may not.
WeakCasTakes(cur, exp) == IF cur = exp THEN {TRUE, FALSE} ELSE {FALSE}
\* A strong compare-exchange that may fail like a weak one.
StrongCasAsWeak(cur, exp) == IF cur = exp THEN {TRUE, FALSE} ELSE {FALSE}
StrongCasTakes(cur, exp) == {cur = exp}

\* ------------------------------------------------------- worker_thread
\* An iteration that steals from the other workers before it looks at the
\* overflow list.
AfterMissPeersFirst(src) ==
    CASE src = "local" -> "st_pick" [] src = "peers" -> "g_load" [] src = "global" -> "backoff"
\* worker_thread: where an iteration goes when a source returned nullptr: from
\* local_queue.pop() to steal_from_global(), from there to steal_from_others(),
\* from there to backoff().
AfterMiss(src) ==
    CASE src = "local" -> "g_load" [] src = "global" -> "st_pick" [] src = "peers" -> "backoff"

\* ------------------------------------------------- LockFreeRingBuffer
\* The ring operations, as functions of the values the caller has read.
RingNext(i) == (i + 1) % RingSize                 \* (i + 1) & MASK
\* A push without the test for a full ring.
PushNeverRejects(t, h) == FALSE
PushRejects(t, h) == RingNext(t) = h              \* push: next_tail == head
RingEmpty(h, t) == h = t                          \* pop, steal, empty: head == tail

\* ------------------------------------------------------------- enqueue
\* A routing test that takes every caller for an external thread.
IsWorkerNever(th) == FALSE
\* A worker thread of another LockFreeThreadPool of the same process (present
\* in SpecForeign only).
Foreign == NumWorkers + 1
\* thread_id: thread_local, static, so one variable per thread for all pools:
\* the index a worker_thread stored in it (here 1..N for indices 0..N-1), of
\* whichever pool the thread belongs to; the initial value otherwise.
NoThreadId == WordMod - 1                         \* numeric_limits<size_t>::max()
thread_id(th) ==
    IF th \in Workers THEN th ELSE IF th = Main THEN NoThreadId ELSE work.fid
IsWorker(th) == thread_id(th) \in Workers         \* thread_id < worker_data.size()
EnqueueReturnsTo(th) == IF th = Main THEN "m_idle" ELSE "body"

\* operator new returns any address that is not allocated.  Addresses never used
\* before are interchangeable, so the lowest stands for all of them.
Fresh(a) ==
    /\ ~live[a]
    /\ func[a] # 0 \/ \A b \in Addr : (func[b] = 0 /\ ~live[b]) => a <= b

\* new Task{...}: a fresh envelope at any free address, next = nullptr; then the
\* test thread_id < worker_data.size().
EnqNew(th) ==
    /\ \/ At(th, "m_idle") /\ th = Main /\ loc[th].spawned < work.main
       \/ At(th, "body") /\ th \in Workers /\ loc[th].spawned < work.kids[loc[th].t]
    /\ nextId <= work.total
    /\ \E a \in Addr :
         /\ Fresh(a)
         /\ live' = [live EXCEPT ![a] = TRUE]
         /\ func' = [func EXCEPT ![a] = nextId]
         /\ next' = [next EXCEPT ![a] = nullptr]
         /\ loc' = [loc EXCEPT ![th].etask = a, ![th].eid = nextId,
                               ![th].spawned = @ + 1]
    /\ nextId' = nextId + 1
    /\ Goto(th, IF IsWorker(th) THEN "e_push_rd" ELSE "e_gload")
    /\ UNCHANGED <<rings, global_queue_head, global_queue_size, active_tasks, stop,
                   backoffs, future, hist, crashed, ub, work>>

\* push: current_tail, next_tail, the load of head and the test for a full ring.
PushRead(th) ==
    /\ At(th, "e_push_rd")
    /\ LET full == PushRejects(tail[thread_id(th)], head[thread_id(th)])
       IN /\ Goto(th, IF full THEN "e_gload" ELSE "e_push_st")
          /\ hist' = [hist EXCEPT !.spilled[loc[th].eid] = full]
    /\ UNCHANGED <<rings, global_queue_head, global_queue_size, active_tasks, stop,
                   backoffs, heap, loc, nextId, future, crashed, ub, work>>

\* push: buffer[current_tail].data.store(item)
PushSlot(th) ==
    /\ At(th, "e_push_st")
    /\ buffer' = [buffer EXCEPT ![thread_id(th)][tail[thread_id(th)]] = loc[th].etask]
    /\ Goto(th, "e_push_tl")
    /\ UNCHANGED <<head, tail, global_queue_head, global_queue_size, active_tasks, stop,
                   backoffs, heap, loc, nextId, future, hist, crashed, ub, work>>

\* push: tail.store(next_tail); return true
PushTail(th) ==
    /\ At(th, "e_push_tl")
    /\ tail' = [tail EXCEPT ![thread_id(th)] = RingNext(@)]
    /\ loc' = [loc EXCEPT ![th].k = 1]
    /\ Goto(th, "e_wake")
    /\ UNCHANGED <<head, buffer, global_queue_head, global_queue_size, active_tasks,
                   stop, backoffs, heap, nextId, future, hist, crashed, ub, work>>

\* Task* old_head = global_queue_head.load()
GPushLoad(th) ==
    /\ At(th, "e_gload")
    /\ loc' = [loc EXCEPT ![th].old = global_queue_head]
    /\ Goto(th, "e_gcas")
    /\ UNCHANGED <<rings, global_queue_head, global_queue_size, active_tasks, stop,
                   backoffs, heap, nextId, future, hist, crashed, ub, work>>

\* do { task->next = old_head; } while (!compare_exchange_weak(old_head, task))
GPushCas(th) ==
    /\ At(th, "e_gcas")
    /\ next' = [next EXCEPT ![loc[th].etask] = loc[th].old]
    /\ \E ok \in WeakCasTakes(global_queue_head, loc[th].old) :
         IF ok
           THEN /\ global_queue_head' = loc[th].etask
                /\ loc' = [loc EXCEPT ![th].old = 0]
                /\ Goto(th, "e_gadd")
           ELSE /\ loc' = [loc EXCEPT ![th].old = global_queue_head]
                /\ UNCHANGED <<global_queue_head, pc>>
    /\ UNCHANGED <<rings, global_queue_size, active_tasks, stop, backoffs, live, func,
                   nextId, future, hist, crashed, ub, work>>

\* global_queue_size.fetch_add(1)
GPushAdd(th) ==
    /\ At(th, "e_gadd")
    /\ global_queue_size' = Inc(global_queue_size)
    /\ loc' = [loc EXCEPT ![th].k = 1]
    /\ Goto(th, "e_wake")
    /\ UNCHANGED <<rings, global_queue_head, active_tasks, stop, backoffs, heap, nextId,
                   future, hist, crashed, ub, work>>

\* wake_sleeping_thread: one iteration of the scan (worker k); the step that ends
\* the scan also returns the future from enqueue.
WakeScan(th) ==
    /\ At(th, "e_wake")
    /\ LET k == loc[th].k
           ends == sleeping[k] \/ k = NumWorkers
       IN /\ steal_attempts' = IF sleeping[k] THEN [steal_attempts EXCEPT ![k] = 0]
                                               ELSE steal_attempts
          /\ IF ends
               THEN /\ hist' = [hist EXCEPT !.accepted[loc[th].eid] = TRUE]
                    /\ loc' = [loc EXCEPT ![th].k = 0, ![th].etask = 0, ![th].eid = 0]
                    /\ Goto(th, EnqueueReturnsTo(th))
               ELSE /\ loc' = [loc EXCEPT ![th].k = k + 1]
                    /\ UNCHANGED <<hist, pc>>
    /\ UNCHANGED <<rings, global_queue_head, global_queue_size, active_tasks, stop,
                   sleeping, heap, nextId, future, crashed, ub, work>>

\* --------------------------------------------------------- worker_thread
Bump(f, t) == IF t \in Tasks THEN [hist EXCEPT ![f][t] = Cap2(@)] ELSE hist

\* while (!stop.load())
LoopTest(w) ==
    /\ At(w, "loop")
    /\ Goto(w, IF stop THEN "exited" ELSE "pop_rd")
    /\ UNCHANGED <<rings, global_queue_head, global_queue_size, active_tasks, stop,
                   backoffs, heap, loc, nextId, future, hist, crashed, ub, work>>

\* pop: size_t current_head = head.load()
PopRead(w) ==
    /\ At(w, "pop_rd")
    /\ loc' = [loc EXCEPT ![w].cur = head[w]]
    /\ Goto(w, "pop_st")
    /\ UNCHANGED <<rings, global_queue_head, global_queue_size, active_tasks, stop,
                   backoffs, heap, nextId, future, hist, crashed, ub, work>>

\* pop: the test against tail, the load of the slot, head.store(current_head + 1).
\* tail and the slots are written by this thread only, so reading them here is
\* reading them at any earlier point of the pop.
PopStore(w) ==
    /\ At(w, "pop_st")
    /\ LET h == loc[w].cur
           item == buffer[w][h]
       IN IF RingEmpty(h, tail[w])
            THEN /\ loc' = [loc EXCEPT ![w].cur = 0]
                 /\ Goto(w, AfterMiss("local"))
                 /\ UNCHANGED <<head, hist>>
            ELSE /\ head' = [head EXCEPT ![w] = RingNext(h)]
                 /\ IF item = nullptr
                      THEN /\ loc' = [loc EXCEPT ![w].cur = 0]
                           /\ Goto(w, AfterMiss("local"))
                           /\ UNCHANGED hist
                      ELSE /\ loc' = [loc EXCEPT ![w].cur = 0, ![w].task = item]
                           /\ hist' = Bump("deq", func[item])
                           /\ Goto(w, "exec_inc")
    /\ UNCHANGED <<tail, buffer, global_queue_head, global_queue_size, active_tasks,
                   stop, backoffs, heap, nextId, future, crashed, ub, work>>

\* steal_from_global: Task* head = global_queue_head.load(); while (head)
GLoad(w) ==
    /\ At(w, "g_load")
    /\ loc' = [loc EXCEPT ![w].item = global_queue_head]
    /\ Goto(w, IF global_queue_head = nullptr THEN AfterMiss("global") ELSE "g_next")
    /\ UNCHANGED <<rings, global_queue_head, global_queue_size, active_tasks, stop,
                   backoffs, heap, nextId, future, hist, crashed, ub, work>>

\* steal_from_global: Task* next = head->next.  head may have been deleted since
\* it was loaded (dang): the read then yields any pointer, or the next of the
\* envelope that was allocated in its place.
GNext(w) ==
    /\ At(w, "g_next")
    /\ \E n \in (IF live[loc[w].item] THEN {next[loc[w].item]} ELSE {nullptr} \cup Addr) :
         loc' = [loc EXCEPT ![w].nxt = n, ![w].dang = FALSE]
    /\ ub' = (ub \/ ~live[loc[w].item] \/ loc[w].dang)
    /\ Goto(w, "g_cas")
    /\ UNCHANGED <<rings, global_queue_head, global_queue_size, active_tasks, stop,
                   backoffs, heap, nextId, future, hist, crashed, work>>

\* steal_from_global: compare_exchange_weak(head, next); a failure, spurious or
\* not, reloads head.
GCas(w) ==
    /\ At(w, "g_cas")
    /\ \E ok \in WeakCasTakes(global_queue_head, loc[w].item) :
         IF ok
           THEN /\ global_queue_head' = loc[w].nxt
                /\ loc' = [loc EXCEPT ![w].nxt = 0]
                /\ hist' = Bump("deq", func[loc[w].item])
                /\ Goto(w, "g_sub")
           ELSE /\ loc' = [loc EXCEPT ![w].nxt = 0, ![w].item = global_queue_head]
                /\ Goto(w, IF global_queue_head = nullptr THEN AfterMiss("global") ELSE "g_next")
                /\ UNCHANGED <<global_queue_head, hist>>
    /\ UNCHANGED <<rings, global_queue_size, active_tasks, stop, backoffs, heap, nextId,
                   future, crashed, ub, work>>

\* steal_from_global: global_queue_size.fetch_sub(1); return head
GSub(w) ==
    /\ At(w, "g_sub")
    /\ global_queue_size' = Dec(global_queue_size)
    /\ loc' = [loc EXCEPT ![w].item = 0, ![w].task = loc[w].item]
    /\ Goto(w, "exec_inc")
    /\ UNCHANGED <<rings, global_queue_head, active_tasks, stop, backoffs, heap, nextId,
                   future, hist, crashed, ub, work>>

\* steal_from_others: the loop test and the draw of victim_id; drawing oneself
\* uses up an attempt.
StealPick(w) ==
    /\ At(w, "st_pick")
    /\ IF loc[w].att >= 2 * NumWorkers
         THEN /\ loc' = [loc EXCEPT ![w].att = 0]
              /\ Goto(w, AfterMiss("peers"))
         ELSE \E v \in Workers :
                IF v = w
                  THEN /\ loc' = [loc EXCEPT ![w].att = @ + 1]
                       /\ UNCHANGED pc
                  ELSE /\ loc' = [loc EXCEPT ![w].vic = v]
                       /\ Goto(w, "st_head")
    /\ UNCHANGED <<rings, global_queue_head, global_queue_size, active_tasks, stop,
                   backoffs, heap, nextId, future, hist, crashed, ub, work>>

\* steal: size_t current_head = head.load()
StealHead(w) ==
    /\ At(w, "st_head")
    /\ loc' = [loc EXCEPT ![w].cur = head[loc[w].vic]]
    /\ Goto(w, "st_tail")
    /\ UNCHANGED <<rings, global_queue_head, global_queue_size, active_tasks, stop,
                   backoffs, heap, nextId, future, hist, crashed, ub, work>>

\* steal: size_t current_tail = tail.load(); if (current_head == current_tail) return nullptr
StealTail(w) ==
    /\ At(w, "st_tail")
    /\ IF RingEmpty(loc[w].cur, tail[loc[w].vic])
         THEN /\ loc' = [loc EXCEPT ![w].cur = 0, ![w].vic = 0, ![w].att = @ + 1]
              /\ Goto(w, "st_pick")
         ELSE /\ Goto(w, "st_slot")
              /\ UNCHANGED loc
    /\ UNCHANGED <<rings, global_queue_head, global_queue_size, active_tasks, stop,
                   backoffs, heap, nextId, future, hist, crashed, ub, work>>

\* steal: T* item = buffer[current_head].data.load()
StealSlot(w) ==
    /\ At(w, "st_slot")
    /\ loc' = [loc EXCEPT ![w].item = buffer[loc[w].vic][loc[w].cur]]
    /\ Goto(w, "st_cas")
    /\ UNCHANGED <<rings, global_queue_head, global_queue_size, active_tasks, stop,
                   backoffs, heap, nextId, future, hist, crashed, ub, work>>

\* steal: head.compare_exchange_strong(current_head, next_head); the caller's
\* if (task) return task.
StealCas(w) ==
    /\ At(w, "st_cas")
    /\ \E ok \in StrongCasTakes(head[loc[w].vic], loc[w].cur) :
       LET v == loc[w].vic
           got == ok /\ loc[w].item # nullptr
       IN /\ head' = IF ok THEN [head EXCEPT ![v] = RingNext(loc[w].cur)] ELSE head
          /\ IF got
               THEN /\ loc' = [loc EXCEPT ![w].cur = 0, ![w].vic = 0, ![w].item = 0,
                                          ![w].att = 0, ![w].task = loc[w].item]
                    /\ hist' = Bump("deq", func[loc[w].item])
                    /\ Goto(w, "exec_inc")
               ELSE /\ loc' = [loc EXCEPT ![w].cur = 0, ![w].vic = 0, ![w].item = 0,
                                          ![w].att = @ + 1]
                    /\ Goto(w, "st_pick")
                    /\ UNCHANGED hist
    /\ UNCHANGED <<tail, buffer, global_queue_head, global_queue_size, active_tasks,
                   stop, backoffs, heap, nextId, future, crashed, ub, work>>

\* active_tasks.fetch_add(1)
ExecInc(w) ==
    /\ At(w, "exec_inc")
    /\ active_tasks' = Inc(active_tasks)
    /\ Goto(w, "exec_call")
    /\ UNCHANGED <<rings, global_queue_head, global_queue_size, stop, backoffs, heap,
                   loc, nextId, future, hist, crashed, ub, work>>

\* task->func(): the call enters the envelope's callable.  Calling through an
\* envelope that was deleted either runs what its memory still holds or kills
\* the process.
ExecCall(w) ==
    /\ At(w, "exec_call")
    /\ LET a == loc[w].task
       IN /\ ub' = (ub \/ ~live[a])
          /\ \/ /\ func[a] \in Tasks
                /\ loc' = [loc EXCEPT ![w].t = func[a], ![w].spawned = 0]
                /\ hist' = Bump("runs", func[a])
                /\ Goto(w, "body")
                /\ UNCHANGED crashed
             \/ /\ ~live[a]
                /\ crashed' = Crash(w, "call")
                /\ UNCHANGED <<loc, hist, pc>>
    /\ UNCHANGED <<rings, global_queue_head, global_queue_size, active_tasks, stop,
                   backoffs, heap, nextId, future, work>>

\* A wrapper that captures one promise for all tasks instead of its own.
PromiseShared(t) == 1

\* The task wrapper of enqueue: the promise it captures is the one made by the
\* same enqueue call, std::make_shared<std::promise<return_type>>().
PromiseOf(t) == t
Outcome(t) == IF Throws(t) THEN [st |-> "exception", v |-> t]
                           ELSE [st |-> "value", v |-> RetVal(t)]

\* A wrapper that resolves the promise before the callable has finished.
CallableStarted(w) == TRUE

\* func() has run to its end: the task body has made all its enqueue calls (or
\* the workload's envelopes are used up).
CallableDone(w) == loc[w].spawned >= work.kids[loc[w].t] \/ nextId > work.total

\* The callable returns or throws and the wrapper resolves the promise:
\* set_value(func()) or, from catch (...), set_exception.  On a promise that is
\* already satisfied either call throws std::future_error: thrown by set_value it
\* is caught and set_exception throws it again, so it leaves the wrapper and the
\* thread function, and std::terminate ends the process.
BodyEnd(w) ==
    /\ At(w, "body")
    /\ CallableDone(w)
    /\ LET t == loc[w].t
       IN IF future[PromiseOf(t)].st = "pending"
            THEN /\ future' = [future EXCEPT ![PromiseOf(t)] = Outcome(t)]
                 /\ loc' = [loc EXCEPT ![w].t = 0, ![w].spawned = 0]
                 /\ Goto(w, "exec_dec")
                 /\ UNCHANGED crashed
            ELSE /\ crashed' = Crash(w, "promise")
                 /\ UNCHANGED <<future, loc, pc>>
    /\ hist' = Bump("ends", loc[w].t)
    /\ UNCHANGED <<rings, global_queue_head, global_queue_size, active_tasks, stop,
                   backoffs, heap, nextId, ub, work>>

\* active_tasks.fetch_sub(1)
ExecDec(w) ==
    /\ At(w, "exec_dec")
    /\ active_tasks' = Dec(active_tasks)
    /\ Goto(w, "exec_del")
    /\ UNCHANGED <<rings, global_queue_head, global_queue_size, stop, backoffs, heap,
                   loc, nextId, future, hist, crashed, ub, work>>

\* delete task; data.steal_attempts.store(0).  Deleting an envelope that was
\* already deleted either goes unnoticed or aborts the process.
ExecDel(w) ==
    /\ At(w, "exec_del")
    /\ LET a == loc[w].task
       IN /\ ub' = (ub \/ ~live[a])
          /\ IF live[a]
               THEN /\ live' = [live EXCEPT ![a] = FALSE]
                    /\ hist' = Bump("freed", func[a])
                    /\ UNCHANGED crashed
               ELSE /\ crashed' \in {crashed, Crash(w, "delete")}
                    /\ UNCHANGED <<live, hist>>
    /\ steal_attempts' = [steal_attempts EXCEPT ![w] = 0]
    /\ loc' = [v \in DOMAIN loc |->
                 IF v = w THEN [loc[w] EXCEPT !.task = 0]
                 ELSE IF pc[v] = "g_next" /\ loc[v].item = loc[w].task
                        THEN [loc[v] EXCEPT !.dang = TRUE]
                        ELSE loc[v]]
    /\ Goto(w, "loop")
    /\ UNCHANGED <<rings, global_queue_head, global_queue_size, active_tasks, stop,
                   sleeping, func, next, nextId, future, work>>

\* backoff: attempts = steal_attempts.fetch_add(1) (the counter stops at cap);
\* yield or sleep below the last stage, else sleeping.store(true).
BackoffStep(w, cap) ==
    /\ At(w, "backoff")
    /\ steal_attempts' = [steal_attempts EXCEPT ![w] = IF @ < cap THEN @ + 1 ELSE @]
    /\ IF steal_attempts[w] < LongSleepBelow
         THEN /\ Goto(w, "loop")
              /\ UNCHANGED sleeping
         ELSE /\ sleeping' = [sleeping EXCEPT ![w] = TRUE]
              /\ Goto(w, "bo_sleep")
    /\ UNCHANGED <<rings, global_queue_head, global_queue_size, active_tasks, stop, heap,
                   loc, nextId, future, hist, crashed, ub, work>>

Backoff(w) == BackoffStep(w, MaxMiss)

\* backoff: after sleep_for(1 ms), sleeping.store(false)
BackoffWake(w) ==
    /\ At(w, "bo_sleep")
    /\ sleeping' = [sleeping EXCEPT ![w] = FALSE]
    /\ Goto(w, "loop")
    /\ UNCHANGED <<rings, global_queue_head, global_queue_size, active_tasks, stop,
                   steal_attempts, heap, loc, nextId, future, hist, crashed, ub, work>>

\* ------------------------------------------------------------------ wait
\* The user's call of wait(), after the last submission of the main thread.
CallWait ==
    /\ At(Main, "m_idle")
    /\ loc[Main].spawned = work.main
    /\ loc' = [loc EXCEPT ![Main].ret = "m_waited"]
    /\ Goto(Main, "w_act")
    /\ UNCHANGED <<rings, global_queue_head, global_queue_size, active_tasks, stop,
                   backoffs, heap, nextId, future, hist, crashed, ub, work>>

\* while (active_tasks.load() > 0 || ...): the left operand; yield and test again
\* while it is true.
WaitActive ==
    /\ At(Main, "w_act")
    /\ active_tasks = 0
    /\ Goto(Main, "w_gsz")
    /\ UNCHANGED <<rings, global_queue_head, global_queue_size, active_tasks, stop,
                   backoffs, heap, loc, nextId, future, hist, crashed, ub, work>>

\* ... || global_queue_size.load() > 0): the right operand.
WaitGlobal ==
    /\ At(Main, "w_gsz")
    /\ IF global_queue_size > 0
         THEN /\ Goto(Main, "w_act")
              /\ UNCHANGED loc
         ELSE /\ loc' = [loc EXCEPT ![Main].k = 1]
              /\ Goto(Main, "w_rh")
    /\ UNCHANGED <<rings, global_queue_head, global_queue_size, active_tasks, stop,
                   backoffs, heap, nextId, future, hist, crashed, ub, work>>

\* empty(): head.load() of worker k's ring
WaitRingHead ==
    /\ At(Main, "w_rh")
    /\ loc' = [loc EXCEPT ![Main].cur = head[loc[Main].k]]
    /\ Goto(Main, "w_rt")
    /\ UNCHANGED <<rings, global_queue_head, global_queue_size, active_tasks, stop,
                   backoffs, heap, nextId, future, hist, crashed, ub, work>>

\* empty(): == tail.load().  A ring that is not empty ends the scan, which
\* starts again after a yield; the last ring found empty ends wait().
WaitRingTail ==
    /\ At(Main, "w_rt")
    /\ LET k == loc[Main].k
       IN IF RingEmpty(loc[Main].cur, tail[k])
            THEN IF k = NumWorkers
                   THEN /\ loc' = [loc EXCEPT ![Main].cur = 0, ![Main].k = 0, ![Main].ret = ""]
                        /\ Goto(Main, loc[Main].ret)
                   ELSE /\ loc' = [loc EXCEPT ![Main].cur = 0, ![Main].k = k + 1]
                        /\ Goto(Main, "w_rh")
            ELSE /\ loc' = [loc EXCEPT ![Main].cur = 0, ![Main].k = 1]
                 /\ Goto(Main, "w_rh")
    /\ UNCHANGED <<rings, global_queue_head, global_queue_size, active_tasks, stop,
                   backoffs, heap, nextId, future, hist, crashed, ub, work>>

\* ----------------------------------------------------- ~LockFreeThreadPool
\* The destructor is entered: wait()
DtorEnter ==
    /\ \/ At(Main, "m_idle") /\ loc[Main].spawned = work.main
       \/ At(Main, "m_waited")
    /\ loc' = [loc EXCEPT ![Main].ret = "d_stop"]
    /\ hist' = [hist EXCEPT !.before = hist.accepted]
    /\ Goto(Main, "w_act")
    /\ UNCHANGED <<rings, global_queue_head, global_queue_size, active_tasks, stop,
                   backoffs, heap, nextId, future, crashed, ub, work>>

\* stop.store(true)
DtorStop ==
    /\ At(Main, "d_stop")
    /\ stop' = TRUE
    /\ Goto(Main, "d_join")
    /\ UNCHANGED <<rings, global_queue_head, global_queue_size, active_tasks, backoffs,
                   heap, loc, nextId, future, hist, crashed, ub, work>>

\* A destructor that goes on to the drain without joining the workers.
DtorJoinDetached ==
    /\ At(Main, "d_join")
    /\ Goto(Main, "d_drain")
    /\ UNCHANGED <<rings, global_queue_head, global_queue_size, active_tasks, stop,
                   backoffs, heap, loc, nextId, future, hist, crashed, ub, work>>
\* for (auto& thread : threads) thread.join()
DtorJoin ==
    /\ At(Main, "d_join")
    /\ \A w \in Workers : pc[w] = "exited"
    /\ Goto(Main, "d_drain")
    /\ UNCHANGED <<rings, global_queue_head, global_queue_size, active_tasks, stop,
                   backoffs, heap, loc, nextId, future, hist, crashed, ub, work>>

\* The envelopes the drain loop visits from p: head, head->next, ... up to
\* nullptr or to the first envelope that is not allocated any more.
RECURSIVE Chain(_, _)
Chain(p, seen) ==
    IF p = nullptr \/ ~live[p] \/ p \in seen THEN seen ELSE Chain(next[p], seen \cup {p})

RECURSIVE ChainEnd(_, _)
ChainEnd(p, seen) ==
    IF p = nullptr \/ ~live[p] \/ p \in seen THEN p ELSE ChainEnd(next[p], seen \cup {p})

BumpAll(h, ts) == [t \in Tasks |-> IF t \in ts THEN Cap2(h[t]) ELSE h[t]]

\* Task* head = global_queue_head.load(); while (head) { next = head->next;
\* delete head; head = next; }  No other thread of the pool runs any more.  A
\* chain that leads to a deleted envelope is read and deleted again there.
DtorDrain ==
    /\ At(Main, "d_drain")
    /\ LET visited == Chain(global_queue_head, {})
           last == ChainEnd(global_queue_head, {})
       IN /\ live' = [a \in Addr |-> live[a] /\ a \notin visited]
          /\ hist' = [hist EXCEPT !.freed = BumpAll(@, {func[a] : a \in visited})]
          /\ ub' = (ub \/ last # nullptr)
          /\ IF last # nullptr THEN crashed' \in {crashed, Crash(Main, "drain")}
                              ELSE UNCHANGED crashed
    /\ Goto(Main, "m_done")
    /\ UNCHANGED <<rings, global_queue_head, global_queue_size, active_tasks, stop,
                   backoffs, func, next, loc, nextId, future, work>>

\* ------------------------------------------------------------------ Spec
Next ==
    \/ \E th \in Threads : EnqNew(th)
    \/ \E th \in Threads : PushRead(th)
    \/ \E th \in Threads : PushSlot(th)
    \/ \E th \in Threads : PushTail(th)
    \/ \E th \in Threads : GPushLoad(th)
    \/ \E th \in Threads : GPushCas(th)
    \/ \E th \in Threads : GPushAdd(th)
    \/ \E th \in Threads : WakeScan(th)
    \/ \E w \in Workers : LoopTest(w)
    \/ \E w \in Workers : PopRead(w)
    \/ \E w \in Workers : PopStore(w)
    \/ \E w \in Workers : GLoad(w)
    \/ \E w \in Workers : GNext(w)
    \/ \E w \in Workers : GCas(w)
    \/ \E w \in Workers : GSub(w)
    \/ \E w \in Workers : StealPick(w)
    \/ \E w \in Workers : StealHead(w)
    \/ \E w \in Workers : StealTail(w)
    \/ \E w \in Workers : StealSlot(w)
    \/ \E w \in Workers : StealCas(w)
    \/ \E w \in Workers : ExecInc(w)
    \/ \E w \in Workers : ExecCall(w)
    \/ \E w \in Workers : BodyEnd(w)
    \/ \E w \in Workers : ExecDec(w)
    \/ \E w \in Workers : ExecDel(w)
    \/ \E w \in Workers : Backoff(w)
    \/ CallWait
    \/ WaitActive
    \/ WaitGlobal
    \/ WaitRingHead
    \/ WaitRingTail
    \/ DtorEnter
    \/ DtorStop
    \/ DtorJoin
    \/ DtorDrain

Spec == Init /\ [][Next]_vars

\* ------------------------------------------------------------ SpecExternal
\* Three submissions by the main thread, no task submits: every envelope goes
\* through the overflow list.
ExternalTasks == 3
InitExternal ==
    Constructed([main |-> ExternalTasks, kids |-> [t \in Tasks |-> 0], total |-> ExternalTasks])

\* In SpecExternal no thread ever pushes on a ring, so head = tail = 0 throughout
\* (RingsUntouched) and every read of a ring reads a constant: a whole pop(),
\* steal_from_others() or ring scan of wait() is one step.
RingsUntouched ==
    \A w \in Workers : head[w] = 0 /\ tail[w] = 0

\* pop() on an empty ring: head == tail, return nullptr
PopEmpty(w) ==
    /\ At(w, "pop_rd")
    /\ RingEmpty(head[w], tail[w])
    /\ Goto(w, AfterMiss("local"))
    /\ UNCHANGED <<rings, global_queue_head, global_queue_size, active_tasks, stop,
                   backoffs, heap, loc, nextId, future, hist, crashed, ub, work>>

\* steal_from_others() when every ring is empty: each steal() returns nullptr
StealOthersEmpty(w) ==
    /\ At(w, "st_pick")
    /\ \A v \in Workers : RingEmpty(head[v], tail[v])
    /\ Goto(w, AfterMiss("peers"))
    /\ UNCHANGED <<rings, global_queue_head, global_queue_size, active_tasks, stop,
                   backoffs, heap, loc, nextId, future, hist, crashed, ub, work>>

\* wait(): the scan of the rings when every ring is empty
WaitRingsEmpty ==
    /\ At(Main, "w_rh")
    /\ \A v \in Workers : RingEmpty(head[v], tail[v])
    /\ loc' = [loc EXCEPT ![Main].k = 0, ![Main].ret = ""]
    /\ Goto(Main, loc[Main].ret)
    /\ UNCHANGED <<rings, global_queue_head, global_queue_size, active_tasks, stop,
                   backoffs, heap, nextId, future, hist, crashed, ub, work>>

NextExternal ==
    \/ EnqNew(Main)
    \/ GPushLoad(Main)
    \/ GPushCas(Main)
    \/ GPushAdd(Main)
    \/ WakeScan(Main)
    \/ \E w \in Workers : LoopTest(w)
    \/ \E w \in Workers : PopEmpty(w)
    \/ \E w \in Workers : GLoad(w)
    \/ \E w \in Workers : GNext(w)
    \/ \E w \in Workers : GCas(w)
    \/ \E w \in Workers : GSub(w)
    \/ \E w \in Workers : StealOthersEmpty(w)
    \/ \E w \in Workers : ExecInc(w)
    \/ \E w \in Workers : ExecCall(w)
    \/ \E w \in Workers : BodyEnd(w)
    \/ \E w \in Workers : ExecDec(w)
    \/ \E w \in Workers : ExecDel(w)
    \/ \E w \in Workers : Backoff(w)
    \/ WaitActive
    \/ WaitGlobal
    \/ WaitRingsEmpty
    \/ DtorEnter
    \/ DtorStop
    \/ DtorJoin
    \/ DtorDrain

SpecExternal == InitExternal /\ [][NextExternal]_vars

\* --------------------------------------------------------------- SpecSpill
\* Main has submitted task 1 and then task 2, whose body submits two more; no
\* worker has taken a step yet: the overflow list is 2 -> 1 and main is about to
\* enter the destructor.
SpillWork == [main |-> 2, kids |-> [t \in Tasks |-> IF t = 2 THEN 2 ELSE 0], total |-> 4]
InitSpill ==
    /\ work = SpillWork
    /\ head = [w \in Workers |-> 0]
    /\ tail = [w \in Workers |-> 0]
    /\ buffer = [w \in Workers |-> [i \in Idx |-> nullptr]]
    /\ global_queue_head = 2
    /\ global_queue_size = 2
    /\ active_tasks = 0
    /\ stop = FALSE
    /\ steal_attempts = [w \in Workers |-> 0]
    /\ sleeping = [w \in Workers |-> FALSE]
    /\ live = [a \in Addr |-> a <= 2]
    /\ func = [a \in Addr |-> IF a <= 2 THEN a ELSE 0]
    /\ next = [a \in Addr |-> IF a = 2 THEN 1 ELSE nullptr]
    /\ pc = [th \in Threads |-> IF th = Main THEN "m_idle" ELSE "loop"]
    /\ loc = [th \in Threads |-> IF th = Main THEN [NoLoc EXCEPT !.spawned = 2] ELSE NoLoc]
    /\ nextId = 3
    /\ future = [t \in Tasks |-> [st |-> "pending", v |-> 0]]
    /\ hist = [deq |-> [t \in Tasks |-> 0], runs |-> [t \in Tasks |-> 0],
               ends |-> [t \in Tasks |-> 0], freed |-> [t \in Tasks |-> 0],
               accepted |-> [t \in Tasks |-> t <= 2],
               before |-> [t \in Tasks |-> FALSE],
               spilled |-> [t \in Tasks |-> FALSE]]
    /\ crashed = NoCrash
    /\ ub = FALSE

NextSpill ==
    \/ \E w \in Workers : EnqNew(w)
    \/ \E w \in Workers : PushRead(w)
    \/ \E w \in Workers : PushSlot(w)
    \/ \E w \in Workers : PushTail(w)
    \/ \E w \in Workers : GPushLoad(w)
    \/ \E w \in Workers : GPushCas(w)
    \/ \E w \in Workers : GPushAdd(w)
    \/ \E w \in Workers : WakeScan(w)
    \/ \E w \in Workers : LoopTest(w)
    \/ \E w \in Workers : PopRead(w)
    \/ \E w \in Workers : PopStore(w)
    \/ \E w \in Workers : GLoad(w)
    \/ \E w \in Workers : GNext(w)
    \/ \E w \in Workers : GCas(w)
    \/ \E w \in Workers : GSub(w)
    \/ \E w \in Workers : StealPick(w)
    \/ \E w \in Workers : StealHead(w)
    \/ \E w \in Workers : StealTail(w)
    \/ \E w \in Workers : StealSlot(w)
    \/ \E w \in Workers : StealCas(w)
    \/ \E w \in Workers : ExecInc(w)
    \/ \E w \in Workers : ExecCall(w)
    \/ \E w \in Workers : BodyEnd(w)
    \/ \E w \in Workers : ExecDec(w)
    \/ \E w \in Workers : ExecDel(w)
    \/ \E w \in Workers : Backoff(w)
    \/ WaitActive
    \/ WaitGlobal
    \/ WaitRingHead
    \/ WaitRingTail
    \/ DtorEnter
    \/ DtorStop
    \/ DtorJoin
    \/ DtorDrain

SpecSpill == InitSpill /\ [][NextSpill]_vars

\* ================================================================ claims
Created == 1..(nextId - 1)
Finished(t) == hist.ends[t] >= 1
WaitReturned == pc[Main] \in {"m_waited", "d_stop"}
NoSpawns == \A t \in Tasks : work.kids[t] = 0

\* The envelopes that some dequeue can still return: those linked from
\* global_queue_head and those in a ring's slots from head up to tail.
RECURSIVE Between(_, _)
Between(h, t) == IF h = t THEN {} ELSE {h} \cup Between(RingNext(h), t)
InRing(a) == \E w \in Workers : \E i \in Between(head[w], tail[w]) : buffer[w][i] = a
Resident(t) ==
    \E a \in Addr : /\ live[a] /\ func[a] = t
                    /\ (a \in Chain(global_queue_head, {}) \/ InRing(a))

\* Nobody holds an envelope or is about to queue one, and nothing is queued:
\* from here on no worker finds a task, so no callable is entered any more,
\* and active_tasks and global_queue_size keep their values.
EnqueuePcs == {"e_push_rd", "e_push_st", "e_push_tl", "e_gload", "e_gcas", "e_gadd", "e_wake"}
HoldingPcs == {"g_sub", "st_slot", "st_cas", "exec_inc", "exec_call", "body",
               "exec_dec", "exec_del"}
NothingToRun ==
    /\ global_queue_head = nullptr
    /\ \A w \in Workers : RingEmpty(head[w], tail[w]) /\ pc[w] \notin HoldingPcs \cup EnqueuePcs
    /\ pc[Main] \notin EnqueuePcs
    /\ loc[Main].spawned = work.main
Sound == ~ub /\ crashed = NoCrash

\* C1: no envelope is returned by more than one dequeue operation, so no
\* callable runs more than once and no envelope is deleted more than once.
C1_AtMostOnce ==
    \A t \in Tasks : hist.deq[t] <= 1 /\ hist.runs[t] <= 1 /\ hist.freed[t] <= 1

\* C2: when wait() has returned, every task created so far (submitted by main
\* before the call, or spawned by such a task) has finished executing.
C2_WaitCoversAll ==
    WaitReturned => \A t \in Created : Finished(t)

\* C3: after wait() has returned, with no submission after it (no task of the
\* workload spawns), active_tasks and global_queue_size are 0 and every ring
\* is empty.
C3_QuiescentAfterWait ==
    (pc[Main] = "m_waited" /\ NoSpawns) =>
        /\ active_tasks = 0
        /\ global_queue_size = 0
        /\ \A w \in Workers : RingEmpty(head[w], tail[w])

\* C4: every accepted task is eventually executed while the pool is alive.
\* Stated on the states where nothing can be executed any more: there, every
\* task whose enqueue returned has been run.
C4_AcceptedIsRun ==
    (Sound /\ ~stop /\ NothingToRun) =>
        \A t \in Tasks : hist.accepted[t] => hist.runs[t] >= 1

\* C5: no task is lost: an accepted task that no dequeue has returned yet is
\* still on the overflow list or in a ring, until the destructor drains it.
C5_NoTaskLost ==
    (Sound /\ pc[Main] # "m_done") =>
        \A t \in Tasks : (hist.accepted[t] /\ hist.deq[t] = 0) => Resident(t)

\* C6: once the callable of a task that returns normally has returned, the
\* task's future holds exactly its value; a future never holds anything but
\* the outcome of its own task.
C6_FutureGetsOwnValue ==
    \A t \in Tasks :
        /\ (Finished(t) /\ ~Throws(t)) => future[t] = [st |-> "value", v |-> RetVal(t)]
        /\ future[t].st # "pending" => future[t] = Outcome(t)

\* C6, its case: two tasks have finished on the pool, one of them returning a
\* value, and both futures are ready.
C6_Witness ==
    \E t, u \in Tasks : /\ t # u
                        /\ Finished(t) /\ ~Throws(t) /\ future[t].st = "value"
                        /\ Finished(u) /\ future[u].st # "pending"

\* C7: a callable that throws never takes its worker down: the worker that
\* ran it goes on to active_tasks.fetch_sub and delete.
C7_ThrowIsContained ==
    \A w \in Workers :
        (crashed.by = w /\ crashed.why = "promise") => ~Throws(loc[w].t)

\* C8: when the destructor has returned, every task whose enqueue had returned
\* before the destructor was entered has finished executing.
C8_DtorWaitsForAccepted ==
    pc[Main] = "m_done" => \A t \in Tasks : hist.before[t] => Finished(t)

\* C9: when the destructor has returned, every envelope has been deallocated.
C9_NoLeakAfterDtor ==
    pc[Main] = "m_done" => \A a \in Addr : ~live[a]

\* C10: destruction always completes.  Stated on the states where the
\* destructor is in its wait() and nothing can be executed any more: there the
\* two counters wait() polls are 0, so that its loop ends.
C10_DtorWaitEnds ==
    (Sound /\ loc[Main].ret = "d_stop" /\ pc[Main] \in {"w_act", "w_gsz"} /\ NothingToRun) =>
        active_tasks = 0 /\ global_queue_size = 0

\* Thread th takes the step (at most one thread moves in a step).
Steps(th) == pc'[th] # pc[th] \/ loc'[th] # loc[th]
RingIsFull(w) == (tail[w] + 1) % RingSize = head[w]

\* C11: a full local ring never blocks or fails a submission.  When a worker's
\* push finds its ring full, enqueue goes on to the overflow list without
\* touching any ring: it links the envelope in front of the list, then adds
\* 1 to global_queue_size, and returns the future (the task is accepted).
C11_FullRingFallsBack ==
    [][\A w \in Workers :
         /\ (pc[w] = "e_push_rd" /\ Steps(w) /\ RingIsFull(w)) =>
                /\ pc'[w] = "e_gload"
                /\ loc'[w].etask = loc[w].etask
                /\ UNCHANGED <<rings, global_queue_head, global_queue_size>>
         /\ (pc[w] \in {"e_gload", "e_gcas", "e_gadd"} /\ Steps(w)) =>
                /\ UNCHANGED rings
                /\ pc'[w] \in {"e_gload", "e_gcas", "e_gadd", "e_wake"}
                /\ pc'[w] = "e_gadd" /\ pc[w] = "e_gcas" =>
                       /\ global_queue_head' = loc[w].etask
                       /\ next'[loc[w].etask] = global_queue_head
                /\ pc'[w] = "e_wake" =>
                       /\ pc[w] = "e_gadd"
                       /\ global_queue_size' = (global_queue_size + 1) % WordMod
         /\ (pc[w] = "e_wake" /\ pc'[w] = "body" /\ hist.spilled[loc[w].eid]) =>
                hist'.accepted[loc[w].eid]
      ]_vars

\* C11, its case: a task rejected by its submitter's full ring has been
\* accepted, its envelope having gone to the overflow list.
C11_Witness ==
    \E t \in Tasks : hist.spilled[t] /\ hist.accepted[t]

Executing == {w \in Workers : pc[w] \in {"exec_call", "body", "exec_dec"} \cup EnqueuePcs}

\* C13: active_tasks is the number of workers between their fetch_add and
\* their fetch_sub around task->func(), so it lies between 0 and N.
C13_ActiveCountsExecuting ==
    /\ active_tasks = Cardinality(Executing)
    /\ active_tasks <= NumWorkers

\* C13, its case: every worker is executing a task at the same time.
C13_Witness ==
    /\ \A w \in Workers : pc[w] = "body"
    /\ active_tasks = NumWorkers

\* C14: a future becomes ready only after its task's callable has finished.
\* The step that resolves the future of task t is taken by a worker that runs
\* t and whose callable has made all its submissions (the effects a task has
\* here) and is not inside one.
C14_ReadyAfterCallable ==
    [][\A t \in Tasks :
         (future[t].st = "pending" /\ future'[t].st # "pending") =>
             \E w \in Workers :
                 /\ pc[w] = "body" /\ loc[w].t = t
                 /\ hist.runs[t] >= 1
                 /\ loc[w].spawned >= work.kids[t] \/ nextId > work.total
      ]_vars

\* C14, its case: the future of a task that submits other tasks is ready, and
\* those tasks have been created.
C14_Witness ==
    \E t \in Tasks : /\ work.kids[t] >= 1
                     /\ future[t].st # "pending"
                     /\ nextId > work.total

\* The compare-exchange steps that do not store.
GCasFails(w) == pc[w] = "g_cas" /\ Steps(w) /\ pc'[w] # "g_sub"
StealCasFails(w) == pc[w] = "st_cas" /\ Steps(w) /\ head' = head
GPushCasFails(th) == pc[th] = "e_gcas" /\ Steps(th) /\ pc'[th] = "e_gcas"

\* C15 as stated: a compare-exchange of the overflow push, of steal_from_global
\* or of a ring steal fails only when the head it works on is no longer the
\* value the thread had read, i.e. another thread's operation got in between.
C15_CasFailsOnlyOnChange ==
    [][/\ \A w \in Workers : GCasFails(w) => global_queue_head # loc[w].item
       /\ \A w \in Workers : StealCasFails(w) => head[loc[w].vic] # loc[w].cur
       /\ \A th \in Threads : GPushCasFails(th) => global_queue_head # loc[th].old
      ]_vars

\* C15 amended: the compare_exchange_strong of a ring steal fails only when the
\* ring's head is no longer the value read; a compare_exchange_weak of
\* steal_from_global or of the overflow push may also fail with the head
\* unchanged, and in either case the thread goes on at once with the head it
\* has reloaded (or, in steal_from_global, returns when that is nullptr);
\* none of these steps waits for another thread: each is enabled whenever the
\* thread is at it.
C15_LockFree ==
    /\ [][/\ \A w \in Workers :
               GCasFails(w) =>
                   /\ UNCHANGED global_queue_head
                   /\ loc'[w].item = global_queue_head
                   /\ pc'[w] = IF global_queue_head = nullptr THEN "st_pick" ELSE "g_next"
          /\ \A w \in Workers : StealCasFails(w) => head[loc[w].vic] # loc[w].cur
          /\ \A th \in Threads :
               GPushCasFails(th) =>
                   /\ UNCHANGED global_queue_head
                   /\ loc'[th].old = global_queue_head
         ]_vars
    /\ [](crashed = NoCrash =>
            /\ \A w \in Workers : pc[w] = "g_cas" => ENABLED GCas(w)
            /\ \A w \in Workers : pc[w] = "st_cas" => ENABLED StealCas(w)
            /\ \A th \in Threads : pc[th] = "e_gcas" => ENABLED GPushCas(th))

\* C15, its case: two workers went for the same envelope of the overflow list;
\* one's compare-exchange has stored, the other's is about to fail.
C15_Witness ==
    \E w, v \in Workers :
        /\ w # v
        /\ pc[w] = "g_cas" /\ global_queue_head # loc[w].item
        /\ pc[v] = "g_sub" /\ loc[v].item = loc[w].item

\* worker_thread: the worker has found its own ring empty (pop() returned nullptr).
LocalMiss(w) == pc[w] = "pop_st" /\ Steps(w) /\ pc'[w] # "exec_inc"
\* worker_thread: the worker begins steal_from_global().
StartsGlobal(w) == pc[w] # "g_load" /\ pc'[w] = "g_load"
\* worker_thread: the worker is inside steal_from_others().
StealOthersPcs == {"st_pick", "st_head", "st_tail", "st_slot", "st_cas"}

\* C16: a worker looks for work in the order own ring, then another worker's
\* ring, then the global queue: after a miss on its own ring its next move is
\* a steal from another worker, and it turns to the global queue only out of a
\* steal that failed.
C16_LocalThenStealThenGlobal ==
    [][\A w \in Workers :
          /\ LocalMiss(w) => pc'[w] = "st_pick"
          /\ StartsGlobal(w) => pc[w] \in StealOthersPcs
      ]_vars

\* --------------------------------------------------------------- SpecStats
\* Main submits task 1, whose body submits task 2 to its worker's ring, and
\* polls pending_tasks() at any moment; the pool is not waited for or destroyed.
StatsWork == [main |-> 1, kids |-> [t \in Tasks |-> IF t = 1 THEN 1 ELSE 0], total |-> 2]
InitStats == Constructed(StatsWork)

\* A sum that counts the occupied rings as well.
PendingCountsRings(g, a) ==
    (g + a + Cardinality({w \in Workers : ~RingEmpty(head[w], tail[w])})) % WordMod
\* pending_tasks: the sum of the two values loaded
PendingSum(g, a) == (g + a) % WordMod

\* pending_tasks: the operand of + that is evaluated first (the language leaves
\* the order open): one load of global_queue_size or of active_tasks.
PendingFirst ==
    /\ At(Main, "m_idle")
    /\ \/ loc' = [loc EXCEPT ![Main].k = global_queue_size] /\ Goto(Main, "pt_act")
       \/ loc' = [loc EXCEPT ![Main].k = active_tasks] /\ Goto(Main, "pt_gsz")
    /\ UNCHANGED <<rings, global_queue_head, global_queue_size, active_tasks, stop,
                   backoffs, heap, nextId, future, hist, crashed, ub, work>>

\* pending_tasks: the load of the other operand, and the sum.
PendingSecond ==
    /\ \/ At(Main, "pt_act") /\ loc' = [loc EXCEPT ![Main].k = PendingSum(loc[Main].k, active_tasks)]
       \/ At(Main, "pt_gsz") /\ loc' = [loc EXCEPT ![Main].k = PendingSum(global_queue_size, loc[Main].k)]
    /\ Goto(Main, "pt_ret")
    /\ UNCHANGED <<rings, global_queue_head, global_queue_size, active_tasks, stop,
                   backoffs, heap, nextId, future, hist, crashed, ub, work>>

\* pending_tasks: return; the caller drops the value.
PendingReturn ==
    /\ At(Main, "pt_ret")
    /\ loc' = [loc EXCEPT ![Main].k = 0]
    /\ Goto(Main, "m_idle")
    /\ UNCHANGED <<rings, global_queue_head, global_queue_size, active_tasks, stop,
                   backoffs, heap, nextId, future, hist, crashed, ub, work>>

NextStats ==
    \/ \E th \in Threads : EnqNew(th)
    \/ \E w \in Workers : PushRead(w)
    \/ \E w \in Workers : PushSlot(w)
    \/ \E w \in Workers : PushTail(w)
    \/ GPushLoad(Main)
    \/ GPushCas(Main)
    \/ GPushAdd(Main)
    \/ \E th \in Threads : WakeScan(th)
    \/ \E w \in Workers : LoopTest(w)
    \/ \E w \in Workers : PopRead(w)
    \/ \E w \in Workers : PopStore(w)
    \/ \E w \in Workers : GLoad(w)
    \/ \E w \in Workers : GNext(w)
    \/ \E w \in Workers : GCas(w)
    \/ \E w \in Workers : GSub(w)
    \/ \E w \in Workers : StealPick(w)
    \/ \E w \in Workers : StealHead(w)
    \/ \E w \in Workers : StealTail(w)
    \/ \E w \in Workers : StealSlot(w)
    \/ \E w \in Workers : StealCas(w)
    \/ \E w \in Workers : ExecInc(w)
    \/ \E w \in Workers : ExecCall(w)
    \/ \E w \in Workers : BodyEnd(w)
    \/ \E w \in Workers : ExecDec(w)
    \/ \E w \in Workers : ExecDel(w)
    \/ \E w \in Workers : Backoff(w)
    \/ PendingFirst
    \/ PendingSecond
    \/ PendingReturn

SpecStats == InitStats /\ [][NextStats]_vars

\* C17: pending_tasks() returns global_queue_size + active_tasks, each as
\* loaded, whatever the rings hold: the value it returns is the sum of the
\* operand loaded first and the current value of the other counter, also
\* while a ring holds an envelope.
C17_PendingIsSumOfCounters ==
    [][/\ (pc[Main] = "pt_act" /\ pc'[Main] = "pt_ret") =>
            loc'[Main].k = (loc[Main].k + active_tasks) % WordMod
       /\ (pc[Main] = "pt_gsz" /\ pc'[Main] = "pt_ret") =>
            loc'[Main].k = (global_queue_size + loc[Main].k) % WordMod
      ]_vars

\* C17, its case: pending_tasks() is returning 0 while a ring holds the
\* envelope of a task that has not been entered.
C17_Witness ==
    /\ pc[Main] = "pt_ret" /\ loc[Main].k = 0
    /\ \E a \in Addr : live[a] /\ InRing(a) /\ hist.runs[func[a]] = 0 /\ hist.deq[func[a]] = 0

\* The constructor's threads.emplace_back, once per worker; the vector is not
\* changed afterwards.
threads == Workers
\* thread_count: return threads.size()
thread_count == Cardinality(threads)
\* The worker's thread function is running: it has not returned from its loop
\* and no exception has left it.
Running(w) == pc[w] # "exited" /\ crashed.by # w

\* C18: thread_count() is the N of the constructor throughout, and until the
\* destructor has set stop every one of the N workers is still running its
\* loop (in runs free of undefined behaviour).
C18_WorkersRunUntilStop ==
    /\ thread_count = NumWorkers
    /\ (~stop /\ ~ub) => \A w \in Workers : Running(w)

\* ---------------------------------------------------------------- SpecRing
\* One LockFreeRingBuffer<T, Size> with Size = RingCap, used as the pool uses a
\* worker's local_queue: its owner pushes and pops, another worker steals.  Each
\* call runs alone (call and return are steps, the body is one step between
\* them); the items are the pointers 1, 2, ... in the order they are pushed.
RingCap == 4
MaxPushes == 5
Owner == 1
Thief == 2
Slots == 0..(RingCap - 1)
Wrap(i) == i % RingCap                            \* & MASK

InitRing ==
    /\ head = [w \in Workers |-> 0]
    /\ tail = [w \in Workers |-> 0]
    /\ buffer = [w \in Workers |-> [i \in Slots |-> nullptr]]
    /\ pc = [th \in Threads |-> IF th = Main THEN "m_idle" ELSE "r_idle"]
    /\ loc = [th \in Threads |-> NoLoc]
    /\ nextId = 1
    /\ work = [main |-> 0, kids |-> [t \in Tasks |-> 0], total |-> 0]
    /\ global_queue_head = nullptr
    /\ global_queue_size = 0
    /\ active_tasks = 0
    /\ stop = FALSE
    /\ steal_attempts = [w \in Workers |-> 0]
    /\ sleeping = [w \in Workers |-> FALSE]
    /\ live = [a \in Addr |-> FALSE]
    /\ func = [a \in Addr |-> 0]
    /\ next = [a \in Addr |-> nullptr]
    /\ future = [t \in Tasks |-> [st |-> "pending", v |-> 0]]
    /\ hist = [deq |-> [t \in Tasks |-> 0], runs |-> [t \in Tasks |-> 0],
               ends |-> [t \in Tasks |-> 0], freed |-> [t \in Tasks |-> 0],
               accepted |-> [t \in Tasks |-> FALSE],
               before |-> [t \in Tasks |-> FALSE],
               spilled |-> [t \in Tasks |-> FALSE]]
    /\ crashed = NoCrash
    /\ ub = FALSE

poolVars == <<global_queue_head, global_queue_size, active_tasks, stop, backoffs, heap,
              future, hist, crashed, ub, work>>

\* The owner calls push(item) with a pointer not pushed before.
CallPush ==
    /\ pc[Owner] = "r_idle"
    /\ nextId <= MaxPushes
    /\ loc' = [loc EXCEPT ![Owner].etask = nextId]
    /\ nextId' = nextId + 1
    /\ Goto(Owner, "r_push")
    /\ UNCHANGED <<rings, poolVars>>

\* push: false when (tail + 1) & MASK == head; else store the item in slot tail
\* and publish tail + 1.
push ==
    /\ pc[Owner] = "r_push"
    /\ IF Wrap(tail[Owner] + 1) = head[Owner]
         THEN /\ loc' = [loc EXCEPT ![Owner].etask = 0, ![Owner].k = 0]
              /\ UNCHANGED <<tail, buffer>>
         ELSE /\ buffer' = [buffer EXCEPT ![Owner][tail[Owner]] = loc[Owner].etask]
              /\ tail' = [tail EXCEPT ![Owner] = Wrap(tail[Owner] + 1)]
              /\ loc' = [loc EXCEPT ![Owner].etask = 0, ![Owner].k = 1]
    /\ Goto(Owner, "r_idle")
    /\ UNCHANGED <<head, nextId, poolVars>>

\* pop: nullptr when head == tail, else the item in slot head.
PopReturns(h, t, buf) == IF h = t THEN nullptr ELSE buf[h]
\* steal, running alone (its compare_exchange_strong succeeds): nullptr when
\* head == tail, else the item in slot head.
StealReturns(h, t, buf) == IF h = t THEN nullptr ELSE buf[h]

CallPop ==
    /\ pc[Owner] = "r_idle"
    /\ Goto(Owner, "r_pop")
    /\ UNCHANGED <<rings, loc, nextId, poolVars>>

\* pop: return the item and store head + 1, unless the ring is empty.
pop ==
    /\ pc[Owner] = "r_pop"
    /\ loc' = [loc EXCEPT ![Owner].task = PopReturns(head[Owner], tail[Owner], buffer[Owner])]
    /\ head' = [head EXCEPT ![Owner] =
                  IF head[Owner] = tail[Owner] THEN @ ELSE Wrap(@ + 1)]
    /\ Goto(Owner, "r_idle")
    /\ UNCHANGED <<tail, buffer, nextId, poolVars>>

CallSteal ==
    /\ pc[Thief] = "r_idle"
    /\ Goto(Thief, "r_steal")
    /\ UNCHANGED <<rings, loc, nextId, poolVars>>

\* steal: return the item and move head to head + 1 by compare-exchange, unless
\* the ring is empty.
steal ==
    /\ pc[Thief] = "r_steal"
    /\ loc' = [loc EXCEPT ![Thief].task = StealReturns(head[Owner], tail[Owner], buffer[Owner])]
    /\ head' = [head EXCEPT ![Owner] =
                  IF head[Owner] = tail[Owner] THEN @ ELSE Wrap(@ + 1)]
    /\ Goto(Thief, "r_idle")
    /\ UNCHANGED <<tail, buffer, nextId, poolVars>>

NextRing == CallPush \/ push \/ CallPop \/ pop \/ CallSteal \/ steal

SpecRing == InitRing /\ [][NextRing]_vars

\* The items the ring holds: those in the slots from head up to tail.
RECURSIVE Span(_, _)
Span(h, t) == IF h = t THEN {} ELSE {h} \cup Span(Wrap(h + 1), t)
Held == {buffer[Owner][i] : i \in Span(head[Owner], tail[Owner])}
\* The item pushed last among those held (items are numbered in push order).
Newest == CHOOSE x \in Held : \A y \in Held : y <= x

\* C19: the owner's pop() returns the most recently pushed item still in the
\* ring.
C19_OwnerPopIsLIFO ==
    [][(pc[Owner] = "r_pop" /\ pc'[Owner] = "r_idle" /\ Held # {}) =>
          loc'[Owner].task = Newest]_vars

\* C20: whenever the ring holds at least two items, the item pop() would
\* return and the item steal() would return are different.
C20_StealFromOppositeEnd ==
    Cardinality(Held) >= 2 =>
        PopReturns(head[Owner], tail[Owner], buffer[Owner])
            # StealReturns(head[Owner], tail[Owner], buffer[Owner])

\* A step of worker w that takes an envelope out of a ring or the overflow list.
Takes(w) == Steps(w) /\ hist'.deq # hist.deq

RingSizes == {2, 4}
RacePushes == 5
Items == 1..RacePushes
Mask(i) == i % work.size                          \* & MASK

InitRace ==
    /\ \E c \in RingSizes :
         /\ work = [size |-> c]
         /\ buffer = [w \in Workers |-> [i \in 0..(c - 1) |-> nullptr]]
    /\ head = [w \in Workers |-> 0]
    /\ tail = [w \in Workers |-> 0]
    /\ pc = [th \in Threads |-> IF th = Main THEN "m_idle" ELSE "r_idle"]
    /\ loc = [th \in Threads |-> NoLoc]
    /\ nextId = 1
    /\ hist = [deq |-> [i \in Items |-> 0], held |-> {}]
    /\ global_queue_head = nullptr
    /\ global_queue_size = 0
    /\ active_tasks = 0
    /\ stop = FALSE
    /\ steal_attempts = [w \in Workers |-> 0]
    /\ sleeping = [w \in Workers |-> FALSE]
    /\ live = [a \in Addr |-> FALSE]
    /\ func = [a \in Addr |-> 0]
    /\ next = [a \in Addr |-> nullptr]
    /\ future = [t \in Tasks |-> [st |-> "pending", v |-> 0]]
    /\ crashed = NoCrash
    /\ ub = FALSE

raceRest == <<global_queue_head, global_queue_size, active_tasks, stop, backoffs, heap,
              future, crashed, ub, work>>

\* The pop or steal of thread th returns item x.
Returned(th, x) ==
    /\ loc' = [loc EXCEPT ![th].cur = 0, ![th].item = 0, ![th].task = x]
    /\ hist' = IF x = nullptr THEN hist
               ELSE [hist EXCEPT !.deq[x] = @ + 1, !.held = @ \ {x}]
    /\ Goto(th, "r_idle")

\* The owner calls push(item) with a pointer not pushed before.
OwnerCallsPush ==
    /\ pc[Owner] = "r_idle"
    /\ nextId <= RacePushes
    /\ loc' = [loc EXCEPT ![Owner].etask = nextId]
    /\ nextId' = nextId + 1
    /\ Goto(Owner, "p_rd")
    /\ UNCHANGED <<rings, hist, raceRest>>

\* push: current_tail, next_tail, the load of head; return false when full.
RingPushRead ==
    /\ pc[Owner] = "p_rd"
    /\ IF Mask(tail[Owner] + 1) = head[Owner]
         THEN /\ loc' = [loc EXCEPT ![Owner].etask = 0]
              /\ Goto(Owner, "r_idle")
         ELSE /\ Goto(Owner, "p_st")
              /\ UNCHANGED loc
    /\ UNCHANGED <<rings, nextId, hist, raceRest>>

\* push: buffer[current_tail].data.store(item)
RingPushSlot ==
    /\ pc[Owner] = "p_st"
    /\ buffer' = [buffer EXCEPT ![Owner][tail[Owner]] = loc[Owner].etask]
    /\ Goto(Owner, "p_tl")
    /\ UNCHANGED <<head, tail, loc, nextId, hist, raceRest>>

\* push: tail.store(next_tail); return true
RingPushTail ==
    /\ pc[Owner] = "p_tl"
    /\ tail' = [tail EXCEPT ![Owner] = Mask(tail[Owner] + 1)]
    /\ hist' = [hist EXCEPT !.held = @ \cup {loc[Owner].etask}]
    /\ loc' = [loc EXCEPT ![Owner].etask = 0]
    /\ Goto(Owner, "r_idle")
    /\ UNCHANGED <<head, buffer, nextId, raceRest>>

OwnerCallsPop ==
    /\ pc[Owner] = "r_idle"
    /\ Goto(Owner, "o_rd")
    /\ UNCHANGED <<rings, loc, nextId, hist, raceRest>>

\* pop: size_t current_head = head.load()
RingPopRead ==
    /\ pc[Owner] = "o_rd"
    /\ loc' = [loc EXCEPT ![Owner].cur = head[Owner]]
    /\ Goto(Owner, "o_st")
    /\ UNCHANGED <<rings, nextId, hist, raceRest>>

\* A pop at the tail end: it returns the item pushed last and moves tail back.
RingPopNewest ==
    /\ pc[Owner] = "o_st"
    /\ IF loc[Owner].cur = tail[Owner]
         THEN /\ Returned(Owner, nullptr)
              /\ UNCHANGED tail
         ELSE /\ tail' = [tail EXCEPT ![Owner] = Mask(tail[Owner] - 1 + work.size)]
              /\ Returned(Owner, buffer[Owner][Mask(tail[Owner] - 1 + work.size)])
    /\ UNCHANGED <<head, buffer, nextId, raceRest>>
\* pop: the test against tail, the load of the slot, head.store(current_head + 1).
\* tail and the slots are written by the owner only.
RingPopStore ==
    /\ pc[Owner] = "o_st"
    /\ IF loc[Owner].cur = tail[Owner]
         THEN /\ Returned(Owner, nullptr)
              /\ UNCHANGED head
         ELSE /\ head' = [head EXCEPT ![Owner] = Mask(loc[Owner].cur + 1)]
              /\ Returned(Owner, buffer[Owner][loc[Owner].cur])
    /\ UNCHANGED <<tail, buffer, nextId, raceRest>>

ThiefCallsSteal ==
    /\ pc[Thief] = "r_idle"
    /\ Goto(Thief, "s_hd")
    /\ UNCHANGED <<rings, loc, nextId, hist, raceRest>>

\* steal: size_t current_head = head.load()
RingStealHead ==
    /\ pc[Thief] = "s_hd"
    /\ loc' = [loc EXCEPT ![Thief].cur = head[Owner]]
    /\ Goto(Thief, "s_tl")
    /\ UNCHANGED <<rings, nextId, hist, raceRest>>

\* steal: size_t current_tail = tail.load(); return nullptr when equal
RingStealTail ==
    /\ pc[Thief] = "s_tl"
    /\ IF loc[Thief].cur = tail[Owner]
         THEN Returned(Thief, nullptr)
         ELSE Goto(Thief, "s_sl") /\ UNCHANGED <<loc, hist>>
    /\ UNCHANGED <<rings, nextId, raceRest>>

\* steal: T* item = buffer[current_head].data.load()
RingStealSlot ==
    /\ pc[Thief] = "s_sl"
    /\ loc' = [loc EXCEPT ![Thief].item = buffer[Owner][loc[Thief].cur]]
    /\ Goto(Thief, "s_cas")
    /\ UNCHANGED <<rings, nextId, hist, raceRest>>

\* steal: head.compare_exchange_strong(current_head, next_head); return item
\* when it stored, nullptr when not.
RingStealCas ==
    /\ pc[Thief] = "s_cas"
    /\ \E ok \in StrongCasTakes(head[Owner], loc[Thief].cur) :
         IF ok
           THEN /\ head' = [head EXCEPT ![Owner] = Mask(loc[Thief].cur + 1)]
                /\ Returned(Thief, loc[Thief].item)
           ELSE /\ Returned(Thief, nullptr)
                /\ UNCHANGED head
    /\ UNCHANGED <<tail, buffer, nextId, raceRest>>

NextRace ==
    \/ OwnerCallsPush \/ RingPushRead \/ RingPushSlot \/ RingPushTail
    \/ OwnerCallsPop \/ RingPopRead \/ RingPopStore
    \/ ThiefCallsSteal \/ RingStealHead \/ RingStealTail \/ RingStealSlot \/ RingStealCas

SpecRace == InitRace /\ [][NextRace]_vars

\* C22: head and tail of a ring only advance, one slot at a time: every step
\* leaves each of them where it is or moves it to the next slot.
C22_IndicesOnlyAdvance ==
    [][/\ head'[Owner] \in {head[Owner], Mask(head[Owner] + 1)}
       /\ tail'[Owner] \in {tail[Owner], Mask(tail[Owner] + 1)}]_vars

\* The number of items the ring holds, not yet returned by a pop or a steal.
Undequeued == Cardinality(hist.held)

\* C23: in every reachable state of a ring, head == tail exactly when it holds
\* no un-dequeued item, (tail + 1) & mask == head exactly when it is full, and
\* the number of un-dequeued items is (tail - head) & mask, at most Size - 1.
C23_IndicesCountItems ==
    /\ (head[Owner] = tail[Owner]) <=> (Undequeued = 0)
    /\ (Mask(tail[Owner] + 1) = head[Owner]) <=> (Undequeued = work.size - 1)
    /\ Undequeued = Mask(tail[Owner] - head[Owner] + work.size)
    /\ Undequeued <= work.size - 1

\* C24: a push that finds the ring full returns without changing head, tail or
\* a slot; a push that succeeds writes slot[tail] only, then advances tail by
\* one, and the slot it writes does not hold an un-dequeued item.
C24_PushFrame ==
    [][/\ (pc[Owner] = "p_rd" /\ pc'[Owner] # "p_rd") =>
            /\ UNCHANGED rings
            /\ pc'[Owner] = "r_idle" <=> Mask(tail[Owner] + 1) = head[Owner]
       /\ (pc[Owner] = "p_st" /\ pc'[Owner] # "p_st") =>
            /\ UNCHANGED <<head, tail>>
            /\ \A i \in DOMAIN buffer[Owner] :
                  i # tail[Owner] => buffer'[Owner][i] = buffer[Owner][i]
            /\ buffer'[Owner][tail[Owner]] = loc[Owner].etask
            /\ buffer[Owner][tail[Owner]] \notin hist.held
       /\ (pc[Owner] = "p_tl" /\ pc'[Owner] # "p_tl") =>
            /\ UNCHANGED <<head, buffer>>
            /\ tail'[Owner] = Mask(tail[Owner] + 1)
      ]_vars

\* C25: a steal whose compare-exchange on head succeeds returns the item that
\* slot[head] holds at that instant.
C25_StealReturnsSlotAtCas ==
    [][(pc[Thief] = "s_cas" /\ pc'[Thief] = "r_idle" /\ loc'[Thief].task # nullptr) =>
          loc'[Thief].task = buffer[Owner][head[Owner]]]_vars

\* steal_from_global: worker w reads head->next in this step.
ReadsNext(w) == pc[w] = "g_next" /\ Steps(w)
\* steal_from_global: the compare-exchange of worker w stores in this step.
GCasStores(w) == pc[w] = "g_cas" /\ pc'[w] = "g_sub"

\* C26: the overflow list is free of use-after-free and of ABA: a worker in
\* steal_from_global reads the next link only of an envelope that is still
\* allocated and is the one it loaded, a compare-exchange that succeeds
\* installs the current next link of the envelope it removes, and the list
\* head is null or points to an allocated envelope.
C26_NoAbaNoUseAfterFree ==
    [][~ub =>
        /\ \A w \in Workers :
              ReadsNext(w) => live[loc[w].item] /\ ~loc[w].dang
        /\ \A w \in Workers :
              GCasStores(w) => live[loc[w].item] /\ loc[w].nxt = next[loc[w].item]
        /\ global_queue_head' # nullptr => live'[global_queue_head']
      ]_vars

\* C29: global_queue_size never wraps below zero: while nothing undefined has
\* happened it is at most the number of envelopes created, and so is what
\* pending_tasks() adds to active_tasks.
C29_SizeNeverWraps ==
    Sound => global_queue_size <= nextId - 1

\* enqueue's overflow push (L265-272) and steal_from_global (L149-161).
OverflowPushPcs == {"e_gload", "e_gcas", "e_gadd"}
StealGlobalPcs == {"g_load", "g_next", "g_cas", "g_sub"}
OverflowQuiet ==
    /\ \A th \in Threads : pc[th] \notin OverflowPushPcs
    /\ \A w \in Workers : pc[w] \notin StealGlobalPcs

\* C28: whenever no overflow push and no steal_from_global is in progress,
\* global_queue_size is the number of envelopes linked from global_queue_head
\* (in runs free of undefined behaviour).
C28_SizeCountsTheList ==
    (Sound /\ OverflowQuiet) =>
        global_queue_size = Cardinality(Chain(global_queue_head, {}))

\* The tasks resident on the overflow list when every submission is made by the
\* main thread: those whose envelope main's compare-exchange has published and
\* that no dequeue has returned.  Main pushes them in the order of their
\* numbers.
OnOverflow ==
    {t \in Created : /\ ~(pc[Main] \in {"e_gload", "e_gcas"} /\ loc[Main].eid = t)
                     /\ hist.deq[t] = 0}
\* steal_from_global: worker w returns nullptr in this step.
GlobalMiss(w) == pc[w] \in {"g_load", "g_cas"} /\ pc'[w] = "st_pick"

\* C27: the overflow list is LIFO: a steal_from_global that returns an envelope
\* returns the one pushed last among those resident, and it returns nullptr
\* only when none is resident (in runs free of undefined behaviour).
C27_OverflowIsLifo ==
    [][~ub =>
        \A w \in Workers :
          /\ GCasStores(w) =>
                /\ func[loc[w].item] \in OnOverflow
                /\ \A t \in OnOverflow : t <= func[loc[w].item]
          /\ GlobalMiss(w) => OnOverflow = {}
      ]_vars

\* ------------------------------------------------------------- SpecForeign
\* Two pools in one process.  This pool has NumWorkers workers and gets task 1
\* from the main thread; thread Foreign is a worker of the other pool, which
\* has OtherWorkers workers, and the task it is running there submits one task
\* to this pool.  Its thread_id is its index in its own pool (work.fid).  The
\* tasks submit nothing, so a ring has one producer at most.
OtherWorkers == 3
InitForeign ==
    /\ \E f \in 1..OtherWorkers :
         work = [main |-> 1, kids |-> [t \in Tasks |-> 0], total |-> 2, fid |-> f]
    /\ head = [w \in Workers |-> 0]
    /\ tail = [w \in Workers |-> 0]
    /\ buffer = [w \in Workers |-> [i \in Idx |-> nullptr]]
    /\ global_queue_head = nullptr
    /\ global_queue_size = 0
    /\ active_tasks = 0
    /\ stop = FALSE
    /\ steal_attempts = [w \in Workers |-> 0]
    /\ sleeping = [w \in Workers |-> FALSE]
    /\ live = [a \in Addr |-> FALSE]
    /\ func = [a \in Addr |-> 0]
    /\ next = [a \in Addr |-> nullptr]
    /\ pc = [th \in Threads \cup {Foreign} |->
               IF th = Main THEN "m_idle" ELSE IF th = Foreign THEN "body" ELSE "loop"]
    /\ loc = [th \in Threads \cup {Foreign} |-> NoLoc]
    /\ nextId = 1
    /\ future = [t \in Tasks |-> [st |-> "pending", v |-> 0]]
    /\ hist = [deq |-> [t \in Tasks |-> 0], runs |-> [t \in Tasks |-> 0],
               ends |-> [t \in Tasks |-> 0], freed |-> [t \in Tasks |-> 0],
               accepted |-> [t \in Tasks |-> FALSE],
               before |-> [t \in Tasks |-> FALSE],
               spilled |-> [t \in Tasks |-> FALSE]]
    /\ crashed = NoCrash
    /\ ub = FALSE

\* The other pool's task calls enqueue on this pool: new Task{...}, then the
\* test thread_id < worker_data.size() with the caller's thread_id.
ForeignEnqNew ==
    /\ At(Foreign, "body")
    /\ loc[Foreign].spawned = 0
    /\ nextId <= work.total
    /\ \E a \in Addr :
         /\ Fresh(a)
         /\ live' = [live EXCEPT ![a] = TRUE]
         /\ func' = [func EXCEPT ![a] = nextId]
         /\ next' = [next EXCEPT ![a] = nullptr]
         /\ loc' = [loc EXCEPT ![Foreign].etask = a, ![Foreign].eid = nextId,
                               ![Foreign].spawned = 1]
    /\ nextId' = nextId + 1
    /\ Goto(Foreign, IF IsWorker(Foreign) THEN "e_push_rd" ELSE "e_gload")
    /\ UNCHANGED <<rings, global_queue_head, global_queue_size, active_tasks, stop,
                   backoffs, future, hist, crashed, ub, work>>

NextForeign ==
    \/ EnqNew(Main)
    \/ ForeignEnqNew
    \/ PushRead(Foreign)
    \/ PushSlot(Foreign)
    \/ PushTail(Foreign)
    \/ \E th \in {Main, Foreign} : GPushLoad(th)
    \/ \E th \in {Main, Foreign} : GPushCas(th)
    \/ \E th \in {Main, Foreign} : GPushAdd(th)
    \/ \E th \in {Main, Foreign} : WakeScan(th)
    \/ \E w \in Workers : LoopTest(w)
    \/ \E w \in Workers : PopRead(w)
    \/ \E w \in Workers : PopStore(w)
    \/ \E w \in Workers : GLoad(w)
    \/ \E w \in Workers : GNext(w)
    \/ \E w \in Workers : GCas(w)
    \/ \E w \in Workers : GSub(w)
    \/ \E w \in Workers : StealPick(w)
    \/ \E w \in Workers : StealHead(w)
    \/ \E w \in Workers : StealTail(w)
    \/ \E w \in Workers : StealSlot(w)
    \/ \E w \in Workers : StealCas(w)
    \/ \E w \in Workers : ExecInc(w)
    \/ \E w \in Workers : ExecCall(w)
    \/ \E w \in Workers : BodyEnd(w)
    \/ \E w \in Workers : ExecDec(w)
    \/ \E w \in Workers : ExecDel(w)
    \/ \E w \in Workers : Backoff(w)

SpecForeign == InitForeign /\ [][NextForeign]_vars

\* C30: only the owning worker pushes onto a local ring: every step that
\* writes a slot or the tail of worker_data[w]'s ring is a step of worker
\* thread w of this pool, whichever thread calls enqueue.
C30_OnlyOwnerPushes ==
    [][\A w \in Workers :
          (tail'[w] # tail[w] \/ buffer'[w] # buffer[w]) => Steps(w)]_vars

\* ------------------------------------------------- claims C31 .. C37
\* C31: every executed task resolves its promise exactly once: the wrapper
\* reaches set_value / set_exception once per task, the promise of a task that
\* has run is satisfied, and no exception leaves task->func() into the worker
\* loop (in runs free of undefined behaviour).
C31_ResolvedOnce ==
    ~ub => /\ \A t \in Tasks : /\ hist.ends[t] <= 1
                               /\ Finished(t) => future[PromiseOf(t)].st # "pending"
           /\ crashed.why # "promise"

\* C32: once stop is true no worker dequeues an envelope any more (from its
\* ring, the overflow list or a peer's ring), and a worker that has exited holds
\* no envelope: what it had dequeued it has run and deleted (in runs free of
\* undefined behaviour).
C32_StopEndsDispatch ==
    [][(stop /\ ~ub) => /\ \A w \in Workers : ~Takes(w)
                        /\ \A w \in Workers : pc'[w] = "exited" => loc'[w].task = nullptr]_vars

\* C33: the destructor's steps come in the order wait() returns, stop is set,
\* all workers have exited (join), the overflow list is drained: stop is set
\* only by the destructor after its wait() has returned, the drain starts only
\* with stop set and every worker exited, no worker takes a step while the
\* drain is pending or after it, and nothing is deleted after the one drain.
DtorWaiting == pc[Main] \in {"w_act", "w_gsz", "w_rh", "w_rt"} /\ loc[Main].ret = "d_stop"
DrainPcs == {"d_drain", "m_done"}
C33_DtorOrder ==
    [][/\ (pc'[Main] = "d_stop" /\ pc[Main] # "d_stop") => DtorWaiting
       /\ stop' # stop => pc[Main] = "d_stop" /\ stop' /\ pc'[Main] = "d_join"
       /\ (pc'[Main] = "d_join" /\ pc[Main] # "d_join") => pc[Main] = "d_stop"
       /\ (pc'[Main] = "d_drain" /\ pc[Main] # "d_drain")
             => pc[Main] = "d_join" /\ stop /\ \A w \in Workers : pc[w] = "exited"
       /\ pc[Main] \in DrainPcs
             => /\ \A w \in Workers : pc[w] = "exited" /\ ~Steps(w)
                /\ pc'[Main] = "m_done"
       /\ pc[Main] = "m_done" => live' = live]_vars
C33_Witness ==
    /\ pc[Main] = "m_done" /\ stop /\ Sound
    /\ work.total = 2
    /\ \A t \in 1..work.total : hist.runs[t] = 1 /\ hist.freed[t] = 1

\* -------------------------------------------------------------- SpecBackoff
\* The back-off ladder and the wake hint.  The queues are left out: a dispatch
\* attempt of a worker either finds a task, which it runs, or finds none and
\* calls backoff(); the main thread's enqueue is taken up where the envelope is
\* queued and wake_sleeping_thread is called.  hist.misses[w] counts the empty
\* dispatch attempts of w since its last executed task and hist.rank[w] is the
\* highest stage it has taken since then; a wake hint that writes w's counter
\* starts both anew.  hist.scan is what the running scan has loaded from each
\* worker's sleeping flag.
BackoffCap == 101

GhostBackoff == [misses |-> [w \in Workers |-> 0], rank |-> [w \in Workers |-> 0],
                 scan |-> [w \in Workers |-> "unread"]]


\* A ladder whose last stage starts one miss late.
LadderStageLate(attempts) ==
    IF attempts < YieldBelow THEN "bo_yield"
    ELSE IF attempts < ShortSleepBelow THEN "bo_sleep10"
    ELSE IF attempts <= LongSleepBelow THEN "bo_sleep100"
    ELSE "bo_set"
\* backoff: the branch taken for the value fetch_add returned.
LadderStage(attempts) ==
    IF attempts < YieldBelow THEN "bo_yield"
    ELSE IF attempts < ShortSleepBelow THEN "bo_sleep10"
    ELSE IF attempts < LongSleepBelow THEN "bo_sleep100"
    ELSE "bo_set"
StageRank(p) ==
    CASE p = "bo_yield" -> 1 [] p = "bo_sleep10" -> 2 [] p = "bo_sleep100" -> 3
      [] p \in {"bo_set", "bo_sleep"} -> 4 [] OTHER -> 0

\* worker_thread: the three sources returned nullptr, backoff(data):
\* attempts = steal_attempts.fetch_add(1) and the branch on attempts.
BackoffLadder(w) ==
    /\ At(w, "loop")
    /\ ~stop
    /\ steal_attempts[w] < BackoffCap
    /\ steal_attempts' = [steal_attempts EXCEPT ![w] = @ + 1]
    /\ Goto(w, LadderStage(steal_attempts[w]))
    /\ hist' = [hist EXCEPT !.misses[w] = @ + 1,
                            !.rank[w] = StageRank(LadderStage(steal_attempts[w]))]
    /\ UNCHANGED <<rings, global_queue_head, global_queue_size, active_tasks, stop,
                   sleeping, heap, loc, nextId, future, crashed, ub, work>>

\* yield() or sleep_for(10 us / 100 us) has returned; backoff returns.
BackoffReturn(w) ==
    /\ \/ At(w, "bo_yield")
       \/ At(w, "bo_sleep10")
       \/ At(w, "bo_sleep100")
    /\ Goto(w, "loop")
    /\ UNCHANGED <<rings, global_queue_head, global_queue_size, active_tasks, stop,
                   backoffs, heap, loc, nextId, future, hist, crashed, ub, work>>

\* backoff, last stage: sleeping.store(true), then sleep_for(1 ms)
BackoffSleep(w) ==
    /\ At(w, "bo_set")
    /\ sleeping' = [sleeping EXCEPT ![w] = TRUE]
    /\ Goto(w, "bo_sleep")
    /\ UNCHANGED <<rings, global_queue_head, global_queue_size, active_tasks, stop,
                   steal_attempts, heap, loc, nextId, future, hist, crashed, ub, work>>

\* worker_thread: a source returned a task: it is run and deleted, then
\* steal_attempts.store(0), and the loop starts again.
RunTask(w) ==
    /\ At(w, "loop")
    /\ ~stop
    /\ steal_attempts' = [steal_attempts EXCEPT ![w] = 0]
    /\ hist' = [hist EXCEPT !.misses[w] = 0, !.rank[w] = 0]
    /\ UNCHANGED <<rings, global_queue_head, global_queue_size, active_tasks, stop,
                   sleeping, heap, pc, loc, nextId, future, crashed, ub, work>>

\* enqueue: the envelope is in a queue; wake_sleeping_thread() is called.
CallWake(th) ==
    /\ At(th, "m_idle")
    /\ loc' = [loc EXCEPT ![th].k = 1]
    /\ UNCHANGED hist
    /\ Goto(th, "e_wake")
    /\ UNCHANGED <<rings, global_queue_head, global_queue_size, active_tasks, stop,
                   backoffs, heap, nextId, future, crashed, ub, work>>

Unread == [w \in Workers |-> "unread"]
\* wake_sleeping_thread: data->sleeping.load() of worker k; a flag that is not
\* set leads to the next worker, or out of the loop after the last one.
WakeLoad(th) ==
    /\ At(th, "e_wake")
    /\ LET k == loc[th].k
       IN IF sleeping[k]
            THEN /\ hist' = [hist EXCEPT !.scan[k] = "set"]
                 /\ Goto(th, "e_wake_st")
                 /\ UNCHANGED loc
            ELSE IF k = NumWorkers
                   THEN /\ hist' = [hist EXCEPT !.scan = Unread]
                        /\ loc' = [loc EXCEPT ![th].k = 0]
                        /\ Goto(th, EnqueueReturnsTo(th))
                   ELSE /\ hist' = [hist EXCEPT !.scan[k] = "clear"]
                        /\ loc' = [loc EXCEPT ![th].k = k + 1]
                        /\ UNCHANGED pc
    /\ UNCHANGED <<rings, global_queue_head, global_queue_size, active_tasks, stop,
                   backoffs, heap, nextId, future, crashed, ub, work>>

\* A scan that goes on after it has found a sleeping worker.
WakeStoreGoesOn(th) ==
    /\ At(th, "e_wake_st")
    /\ LET k == loc[th].k
       IN /\ steal_attempts' = [steal_attempts EXCEPT ![k] = 0]
          /\ IF k = NumWorkers
               THEN /\ hist' = [hist EXCEPT !.misses[k] = 0, !.rank[k] = 0, !.scan = Unread]
                    /\ loc' = [loc EXCEPT ![th].k = 0]
                    /\ Goto(th, EnqueueReturnsTo(th))
               ELSE /\ hist' = [hist EXCEPT !.misses[k] = 0, !.rank[k] = 0]
                    /\ loc' = [loc EXCEPT ![th].k = k + 1]
                    /\ Goto(th, "e_wake")
    /\ UNCHANGED <<rings, global_queue_head, global_queue_size, active_tasks, stop,
                   sleeping, heap, nextId, future, crashed, ub, work>>
\* wake_sleeping_thread: data->steal_attempts.store(0); break
WakeStore(th) ==
    /\ At(th, "e_wake_st")
    /\ LET k == loc[th].k
       IN /\ steal_attempts' = [steal_attempts EXCEPT ![k] = 0]
          /\ hist' = [hist EXCEPT !.misses[k] = 0, !.rank[k] = 0, !.scan = Unread]
    /\ loc' = [loc EXCEPT ![th].k = 0]
    /\ Goto(th, EnqueueReturnsTo(th))
    /\ UNCHANGED <<rings, global_queue_head, global_queue_size, active_tasks, stop,
                   sleeping, heap, nextId, future, crashed, ub, work>>

InitLadder ==
    /\ head = [w \in Workers |-> 0]
    /\ tail = [w \in Workers |-> 0]
    /\ buffer = [w \in Workers |-> [i \in Idx |-> nullptr]]
    /\ global_queue_head = nullptr
    /\ global_queue_size = 0
    /\ active_tasks = 0
    /\ stop = FALSE
    /\ steal_attempts = [w \in Workers |-> 0]
    /\ sleeping = [w \in Workers |-> FALSE]
    /\ live = [a \in Addr |-> FALSE]
    /\ func = [a \in Addr |-> 0]
    /\ next = [a \in Addr |-> nullptr]
    /\ pc = [th \in Threads |-> IF th = Main THEN "m_idle" ELSE "loop"]
    /\ loc = [th \in Threads |-> NoLoc]
    /\ nextId = 1
    /\ future = [t \in Tasks |-> [st |-> "pending", v |-> 0]]
    /\ hist = GhostBackoff
    /\ work = [main |-> 0, kids |-> [t \in Tasks |-> 0], total |-> 0]
    /\ crashed = NoCrash
    /\ ub = FALSE

NextBackoff ==
    \/ \E w \in Workers : BackoffLadder(w)
    \/ \E w \in Workers : BackoffReturn(w)
    \/ \E w \in Workers : BackoffSleep(w)
    \/ \E w \in Workers : BackoffWake(w)
    \/ \E w \in Workers : RunTask(w)
    \/ CallWake(Main)
    \/ WakeLoad(Main)
    \/ WakeStore(Main)

SpecBackoff == InitLadder /\ [][NextBackoff]_vars

\* C34: the stage of a backoff() call is given by the number k of empty
\* dispatch attempts the worker has made before it since it last ran a task
\* (or was last given a wake hint): yield for k < 10, the 10 us sleep for
\* 10 <= k < 20, the 100 us sleep for 20 <= k < 100, the 1 ms sleep from 100
\* on, and never a lower stage than the one before; the counter is that number
\* k, so running a task resets it to 0; sleeping is set only during the 1 ms
\* sleep.
C34_LadderEscalates ==
    /\ [](\A w \in Workers : /\ steal_attempts[w] = hist.misses[w]
                             /\ sleeping[w] => pc[w] = "bo_sleep")
    /\ [][\A w \in Workers :
             (pc[w] = "loop" /\ pc'[w] # "loop")
                => /\ LET k == hist.misses[w]
                      IN pc'[w] = IF k < 10 THEN "bo_yield"
                                  ELSE IF k < 20 THEN "bo_sleep10"
                                  ELSE IF k < 100 THEN "bo_sleep100"
                                  ELSE "bo_set"
                   /\ StageRank(pc'[w]) >= hist.rank[w]
                   /\ hist'.misses[w] = hist.misses[w] + 1]_vars
C34_Witness ==
    \E w \in Workers : /\ pc[w] = "bo_sleep" /\ sleeping[w]
                       /\ hist.misses[w] = 101 /\ hist.rank[w] = 4

\* C35: a step of wake_sleeping_thread changes no sleeping flag, no queue and no
\* counter but steal_attempts of one worker, which it sets to 0: the worker
\* whose sleeping flag the scan found set, every worker of lower index having
\* been found not sleeping; the scan ends with that store.
C35_WakeHintFrame ==
    [][(pc[Main] \in {"e_wake", "e_wake_st"} /\ Steps(Main))
          => /\ UNCHANGED <<sleeping, rings, global_queue_head, global_queue_size,
                            active_tasks, stop, heap>>
             /\ \A w \in Workers :
                   steal_attempts'[w] # steal_attempts[w]
                      => /\ steal_attempts'[w] = 0
                         /\ hist.scan[w] = "set"
                         /\ \A v \in 1..(w - 1) : hist.scan[v] = "clear"
             /\ steal_attempts' # steal_attempts => pc'[Main] = "m_idle"]_vars
C35_Witness ==
    /\ pc[Main] = "m_idle"
    /\ hist.scan = Unread
    /\ steal_attempts[1] >= LongSleepBelow
    /\ steal_attempts[2] = 0 /\ sleeping[2] /\ pc[2] = "bo_sleep"

\* ---------------------------------------------------------------- SpecOwner
\* The ring of SpecRace with its owner alone: push and pop calls of one thread,
\* no steal.
NextOwner ==
    \/ OwnerCallsPush \/ RingPushRead \/ RingPushSlot \/ RingPushTail
    \/ OwnerCallsPop \/ RingPopRead \/ RingPopStore

SpecOwner == InitRace /\ [][NextOwner]_vars

\* The item pushed first among those the ring holds (items are numbered in the
\* order of the push calls).
Oldest == CHOOSE x \in hist.held : \A y \in hist.held : x <= y

\* C36: with the owner alone, the ring is a FIFO queue of capacity Size - 1: a
\* push is rejected exactly when Size - 1 items are held and is added to the
\* held items otherwise, a pop returns null exactly when none is held and
\* otherwise returns, and removes, the item pushed first among those held.
C36_OwnerRingIsBoundedFifo ==
    [][/\ (pc[Owner] = "p_rd" /\ pc'[Owner] # "p_rd")
             => (pc'[Owner] = "r_idle" <=> Cardinality(hist.held) = work.size - 1)
       /\ (pc[Owner] = "p_tl" /\ pc'[Owner] # "p_tl")
             => /\ Cardinality(hist.held) < work.size - 1
                /\ hist'.held = hist.held \cup {loc[Owner].etask}
       /\ (pc[Owner] = "o_st" /\ pc'[Owner] # "o_st")
             => IF hist.held = {}
                  THEN loc'[Owner].task = nullptr /\ hist'.held = {}
                  ELSE /\ loc'[Owner].task = Oldest
                       /\ hist'.held = hist.held \ {Oldest}]_vars
C36_Witness ==
    /\ work.size = 4
    /\ pc[Owner] = "r_idle"
    /\ loc[Owner].task = 2
    /\ hist.held = {3, 4, 5}

\* ---------------------------------------------------------------- SpecEmpty
\* A pool constructed with num_threads = 0: worker_data and threads are empty,
\* no worker_thread runs.  The main thread submits work.main tasks and then
\* destroys the pool; thread Foreign, a worker of another pool (thread_id =
\* work.fid), submits work.other tasks at any time.
NoWorkers == 0
EmptySubmits == 2
Clients == {Main, Foreign}

InitEmpty ==
    /\ \E m \in 0..EmptySubmits, o \in 0..EmptySubmits, f \in 1..OtherWorkers :
         work = [main |-> m, other |-> o, kids |-> [t \in Tasks |-> 0],
                 total |-> m + o, fid |-> f]
    /\ head = [w \in Workers |-> 0]
    /\ tail = [w \in Workers |-> 0]
    /\ buffer = [w \in Workers |-> [i \in Idx |-> nullptr]]
    /\ global_queue_head = nullptr
    /\ global_queue_size = 0
    /\ active_tasks = 0
    /\ stop = FALSE
    /\ steal_attempts = [w \in Workers |-> 0]
    /\ sleeping = [w \in Workers |-> FALSE]
    /\ live = [a \in Addr |-> FALSE]
    /\ func = [a \in Addr |-> 0]
    /\ next = [a \in Addr |-> nullptr]
    /\ pc = [th \in Clients |-> IF th = Main THEN "m_idle" ELSE "body"]
    /\ loc = [th \in Clients |-> NoLoc]
    /\ nextId = 1
    /\ future = [t \in Tasks |-> [st |-> "pending", v |-> 0]]
    /\ hist = [deq |-> [t \in Tasks |-> 0], runs |-> [t \in Tasks |-> 0],
               ends |-> [t \in Tasks |-> 0], freed |-> [t \in Tasks |-> 0],
               accepted |-> [t \in Tasks |-> FALSE],
               before |-> [t \in Tasks |-> FALSE],
               spilled |-> [t \in Tasks |-> FALSE]]
    /\ crashed = NoCrash
    /\ ub = FALSE

\* An enqueue that takes the caller's thread_id for an index of this pool
\* whenever it is one of a pool with NumWorkers workers.
EnqNewAsWorker(th) ==
    /\ \/ At(th, "m_idle") /\ th = Main /\ loc[th].spawned < work.main
       \/ At(th, "body") /\ th = Foreign /\ loc[th].spawned < work.other
    /\ nextId <= work.total
    /\ \E a \in Addr :
         /\ Fresh(a)
         /\ live' = [live EXCEPT ![a] = TRUE]
         /\ func' = [func EXCEPT ![a] = nextId]
         /\ next' = [next EXCEPT ![a] = nullptr]
         /\ loc' = [loc EXCEPT ![th].etask = a, ![th].eid = nextId,
                               ![th].spawned = @ + 1]
    /\ nextId' = nextId + 1
    /\ Goto(th, IF IsWorker(th) THEN "e_push_rd" ELSE "e_gload")
    /\ UNCHANGED <<rings, global_queue_head, global_queue_size, active_tasks, stop,
                   backoffs, future, hist, crashed, ub, work>>
\* enqueue: new Task{...}, then the test thread_id < worker_data.size() with
\* worker_data empty.
EnqNewNoWorkers(th) ==
    /\ \/ At(th, "m_idle") /\ th = Main /\ loc[th].spawned < work.main
       \/ At(th, "body") /\ th = Foreign /\ loc[th].spawned < work.other
    /\ nextId <= work.total
    /\ \E a \in Addr :
         /\ Fresh(a)
         /\ live' = [live EXCEPT ![a] = TRUE]
         /\ func' = [func EXCEPT ![a] = nextId]
         /\ next' = [next EXCEPT ![a] = nullptr]
         /\ loc' = [loc EXCEPT ![th].etask = a, ![th].eid = nextId,
                               ![th].spawned = @ + 1]
    /\ nextId' = nextId + 1
    /\ Goto(th, IF thread_id(th) < NoWorkers THEN "e_push_rd" ELSE "e_gload")
    /\ UNCHANGED <<rings, global_queue_head, global_queue_size, active_tasks, stop,
                   backoffs, future, hist, crashed, ub, work>>

\* wake_sleeping_thread over an empty worker_data, then enqueue returns the
\* future.
WakeScanNone(th) ==
    /\ At(th, "e_wake")
    /\ \A k \in 1..NoWorkers : ~sleeping[k]
    /\ hist' = [hist EXCEPT !.accepted[loc[th].eid] = TRUE]
    /\ loc' = [loc EXCEPT ![th].k = 0, ![th].etask = 0, ![th].eid = 0]
    /\ Goto(th, EnqueueReturnsTo(th))
    /\ UNCHANGED <<rings, global_queue_head, global_queue_size, active_tasks, stop,
                   backoffs, heap, nextId, future, crashed, ub, work>>

\* wait: the second loop over an empty worker_data: all_empty stays true and
\* wait() returns.
WaitNoRings ==
    /\ At(Main, "w_rh")
    /\ \A k \in 1..NoWorkers : RingEmpty(head[k], tail[k])
    /\ loc' = [loc EXCEPT ![Main].cur = 0, ![Main].k = 0, ![Main].ret = ""]
    /\ Goto(Main, loc[Main].ret)
    /\ UNCHANGED <<rings, global_queue_head, global_queue_size, active_tasks, stop,
                   backoffs, heap, nextId, future, hist, crashed, ub, work>>

\* for (auto& thread : threads) thread.join() with threads empty
DtorJoinNone ==
    /\ At(Main, "d_join")
    /\ \A w \in 1..NoWorkers : pc[w] = "exited"
    /\ Goto(Main, "d_drain")
    /\ UNCHANGED <<rings, global_queue_head, global_queue_size, active_tasks, stop,
                   backoffs, heap, loc, nextId, future, hist, crashed, ub, work>>

NextEmpty ==
    \/ \E th \in Clients : EnqNewNoWorkers(th)
    \/ \E th \in Clients : GPushLoad(th)
    \/ \E th \in Clients : GPushCas(th)
    \/ \E th \in Clients : GPushAdd(th)
    \/ \E th \in Clients : WakeScanNone(th)
    \/ DtorEnter
    \/ WaitActive
    \/ WaitGlobal
    \/ WaitNoRings
    \/ DtorStop
    \/ DtorJoinNone
    \/ DtorDrain

SpecEmpty == InitEmpty /\ [][NextEmpty]_vars

\* C37: in a pool constructed with N = 0 every enqueue, whatever the caller's
\* thread_id, goes to the overflow list and its task is never executed; when a
\* task has been submitted before the destructor is entered, the destructor's
\* wait() never gets past its first loop, so neither wait() nor the destructor
\* returns.
C37_EmptyPoolNeverDrains ==
    /\ \A th \in Clients : pc[th] \notin {"e_push_rd", "e_push_st", "e_push_tl"}
    /\ \A t \in Tasks : hist.deq[t] = 0 /\ hist.runs[t] = 0
    /\ \A t \in Tasks :
          (hist.accepted[t] /\ pc[Main] # "m_done")
             => \E a \in Chain(global_queue_head, {}) : live[a] /\ func[a] = t
    /\ (\E t \in Tasks : hist.before[t]) => pc[Main] \in {"w_act", "w_gsz"}
C37_Witness ==
    /\ pc[Main] = "w_gsz"
    /\ global_queue_size = 3
    /\ \E t, u \in Tasks : t # u /\ hist.before[t] /\ hist.before[u]
    /\ pc[Foreign] = "body" /\ loc[Foreign].spawned = 2
=============================================================================
